---------------------------- MODULE Spec2Model ----------------------------
(***************************************************************************)
(* State-machine model of the Set and trivia session engines of the        *)
(* repository (src/playset/session.py, src/playset/playset.py,             *)
(* src/trivia_plus/session.py).                                            *)
(*                                                                         *)
(* Three groups of variables, each driven by its own specification:        *)
(*   SpecSet    one SetSession with its real board, deck and scores;       *)
(*   SpecCog    the PlaySet cog: registry, commands, set_end events and    *)
(*              the tasks of its sessions;                                 *)
(*   SpecTrivia one TriviaSession with its reveal task.                    *)
(* SpecPure applies the pure card functions to every triple of cards.      *)
(* SpecCalls applies the other functions, each to a range of arguments.    *)
(***************************************************************************)
EXTENDS Integers, Sequences, FiniteSets, TLC

VARIABLES
    \* ---- one SetSession (src/playset/session.py) ----
    board,          \* self.board, column-major: index 3*col + row + 1
    deck,           \* self.deck, the cards not yet drawn, in drawing order
    boardW,         \* self.boardW
    scores,         \* self.scores: a Counter, author -> int, keys once touched
    foundSet,       \* self.foundSet
    wrongAnswers,   \* self.wrongAnswers: queue of messages
    game_running,   \* self.game_running
    pc,             \* where the task running SetSession.run is suspended
    hpc,            \* where _wrong_handler is suspended
    waitMsg,        \* result of the wait_for future: << >> or <<message>>
    cards,          \* the cards wait_for_set returns (foundSet in run)
    sent,           \* last message sent to the channel: <<kind, toggle>>
    setEnd,         \* number of set_end events this session dispatched
    calls,          \* history: per author, the well-formed calls the listener
                    \* took as wrong and as right
    removed,        \* history: the found sets _update_board was called with,
                    \* each with the width of the board it was called on
    \* ---- one TriviaSession (src/trivia_plus/session.py) ----
    question_list,  \* self.question_list, shuffled: sequence of <<question, raw answers>>
    settings,       \* self.settings
    t_scores,       \* self.scores
    count,          \* self.count
    idle,           \* time.time() - self._last_response, saturated at the timeout
    t_pc,           \* where the task running TriviaSession.run is suspended
    t_cancel,       \* _task.cancel() was called and is not delivered yet
    qidx,           \* questions _iter_questions has yielded
    waited,         \* seconds the pending wait_for has waited
    answers,        \* the answers passed to wait_for_answer
    t_waitMsg,      \* result of the wait_for future: << >> or <<message>>
    wait_args,      \* delay, slow_reveal, half_reveal of the current wait_for_answer
    r_pc,           \* the reveal task: none, sleep, send, done, cancelled
    revealed,       \* letters the reveal task has disclosed
    t_sent,         \* last message sent to the channel: <<kind, toggle>>
    trivEnd,        \* number of trivia_end events dispatched
    deposits, stopped_at        \* bank.deposit_credits calls: sequence of <<winner, amount>>

setVars == <<board, deck, boardW, scores, foundSet, wrongAnswers, game_running,
             pc, hpc, waitMsg, cards, sent, setEnd, calls, removed>>

trivVars == <<question_list, settings, t_scores, count, idle, t_pc, t_cancel,
              qidx, waited, answers, t_waitMsg, wait_args, r_pc, revealed, t_sent,
              trivEnd, deposits, stopped_at>>

\* a call of the module-level function _is_set: its argument and its result
VARIABLES is_set_arg, is_set_ret

pureVars == <<is_set_arg, is_set_ret>>

\* PlaySet: the cog with its registry, sessions seen from the cog, commands
\* suspended in an await, dispatched events and the member's record
VARIABLES set_sessions, sess, stops, stopCount, events, handlers, conf, c_sent

cogVars == <<set_sessions, sess, stops, stopCount, events, handlers, conf,
             c_sent>>

\* a call of one of the other functions by itself: its name, its arguments
\* and what it returns
VARIABLES fn, fn_args, fn_ret

callVars == <<fn, fn_args, fn_ret>>

vars == <<setVars, trivVars, cogVars, pureVars, callVars>>

\* what the steps of one machine leave alone
outsideSet == <<trivVars, cogVars, pureVars, callVars>>
outsideTrivia == <<setVars, cogVars, pureVars, callVars>>
outsideCog == <<setVars, trivVars, pureVars, callVars>>
outsidePure == <<setVars, trivVars, cogVars, callVars>>
outsideCalls == <<setVars, trivVars, cogVars, pureVars>>

-----------------------------------------------------------------------------
(* Bounds of the model.                                                    *)

\* number of shuffled decks Init draws from
NumDecks == 3
\* length of the wrongAnswers queue beyond which no further wrong call arrives
MaxQueue == 2
\* sets the second player calls correctly before leaving the calls to the first
MaxSecond == 1
\* questions of a trivia session
NumQuestions == 3
\* configurations a trivia session is started with
NumSettings == 5
\* sessions the start command creates
MaxSessions == 2
\* stop commands that find a session
MaxStops == 2
\* keys of the score mapping pay_winner is called with, and their points
MaxContestants == 4
MaxPayScore == 3
\* entries of the raw answers _parse_answers is called with
MaxRaw == 3
\* range of the parameters of the shuffles __init__ is called with
MaxDeckParam == 4
\* largest slow_reveal and half_reveal, in seconds, the reveal is set up with
MaxInterval == 3

-----------------------------------------------------------------------------
(* Cards: src/playset/session.py, module level.                            *)

NumCards == 81
Cards == 0 .. (NumCards - 1)

\* the table of valid triples with one permutation forgotten
ValidTriplesShort ==
    { <<0,0,0>>, <<1,1,1>>, <<2,2,2>>, <<0,1,2>>, <<0,2,1>>,
      <<1,0,2>>, <<1,2,0>>, <<2,0,1>> }

_VALID_TRIPLES ==
    { <<0,0,0>>, <<1,1,1>>, <<2,2,2>>, <<0,1,2>>, <<0,2,1>>,
      <<1,0,2>>, <<1,2,0>>, <<2,0,1>>, <<2,1,0>> }

Rows == 3

\* letter -> <<row, col>>
_LETTER_MAP ==
    [l \in {"A","B","C","D","E","F","G","H","I","J","K","L","M","N",
            "O","P","R","S","T","U","V"} |->
        CASE l = "A" -> <<0,0>> [] l = "B" -> <<0,1>> [] l = "C" -> <<0,2>>
          [] l = "D" -> <<0,3>> [] l = "E" -> <<0,4>> [] l = "F" -> <<0,5>>
          [] l = "G" -> <<0,6>>
          [] l = "H" -> <<1,0>> [] l = "I" -> <<1,1>> [] l = "J" -> <<1,2>>
          [] l = "K" -> <<1,3>> [] l = "L" -> <<1,4>> [] l = "M" -> <<1,5>>
          [] l = "N" -> <<1,6>>
          [] l = "O" -> <<2,0>> [] l = "P" -> <<2,1>> [] l = "R" -> <<2,2>>
          [] l = "S" -> <<2,3>> [] l = "T" -> <<2,4>> [] l = "U" -> <<2,5>>
          [] l = "V" -> <<2,6>> ]

\* the decomposition with the last attribute taken from the third digit
CardNumToVecThirdTwice(cardNum) ==
    << cardNum \div 27, (cardNum \div 9) % 3, (cardNum \div 3) % 3,
       (cardNum \div 3) % 3 >>

_card_num_to_vec(cardNum) ==
    << cardNum \div 27, (cardNum \div 9) % 3, (cardNum \div 3) % 3, cardNum % 3 >>

\* the vectors of the 81 cards, computed once
CardVec == [c \in Cards |-> _card_num_to_vec(c)]

_is_set(cardList) ==
    \A i \in 1..4 :
        << CardVec[cardList[1]][i], CardVec[cardList[2]][i],
           CardVec[cardList[3]][i] >> \in _VALID_TRIPLES

\* the board is kept as the sequence of its cards in the order of the code's
\* linear index i (row i%3, column i//3)
_board_contains_set(b) ==
    \E i \in 1..Len(b) : \E j \in (i+1)..Len(b) : \E k \in (j+1)..Len(b) :
        _is_set(<<b[i], b[j], b[k]>>)

\* self.board[_LETTER_MAP[letter]]
BoardAt(b, pos) == b[Rows * pos[2] + pos[1] + 1]

-----------------------------------------------------------------------------
(* Shuffled decks: np.random.permutation(81) is one of the 81! orders; the *)
(* model draws it from NumDecks permutation polynomials                    *)
(* i |-> a*i + b + 3*c*i^2 (mod 81), a not divisible by 3, and one order   *)
(* that begins with 20 cards without a valid triple.                       *)

DeckParams ==
    << <<1,0,5>>, <<5,0,0>>, <<7,1,2>>, <<1,0,0>>, <<2,0,2>>, <<13,5,5>> >>

PolyDeck(p) ==
    [i \in 1..NumCards |->
        (p[1] * (i-1) + p[2] + 3 * p[3] * (i-1) * (i-1)) % NumCards]

\* s[n+1 ..], as numpy's deck[n:]
Drop(s, n) == IF n >= Len(s) THEN <<>> ELSE SubSeq(s, n+1, Len(s))

\* the loop "append a column of 3 deck cards": lines 42-49 and 148-155.
\* err is set when deck[0] is read from an empty deck (IndexError).
RECURSIVE DrawColumn(_, _, _)
DrawColumn(b, d, n) ==
    IF n = 0 THEN [board |-> b, deck |-> d, err |-> FALSE]
    ELSE IF Len(d) = 0 THEN [board |-> b, deck |-> d, err |-> TRUE]
    ELSE DrawColumn(Append(b, d[1]), Drop(d, 1), n - 1)

\* the loop adding two columns at a time
RECURSIVE RepairByTwo(_, _, _, _)
RepairByTwo(b, d, w, stopOnEmpty) ==
    IF _board_contains_set(b) \/ (stopOnEmpty /\ Len(d) = 0)
    THEN [board |-> b, deck |-> d, boardW |-> w, err |-> FALSE]
    ELSE LET col == DrawColumn(b, d, 2 * Rows)
         IN  IF col.err
             THEN [board |-> col.board, deck |-> col.deck, boardW |-> w + 2,
                   err |-> TRUE]
             ELSE RepairByTwo(col.board, col.deck, w + 2, stopOnEmpty)

\* while not _board_contains_set(board) [and deck not empty]: add a column
RECURSIVE Repair(_, _, _, _)
Repair(b, d, w, stopOnEmpty) ==
    IF _board_contains_set(b) \/ (stopOnEmpty /\ Len(d) = 0)
    THEN [board |-> b, deck |-> d, boardW |-> w, err |-> FALSE]
    ELSE LET col == DrawColumn(b, d, Rows)
         IN  IF col.err
             THEN [board |-> col.board, deck |-> col.deck, boardW |-> w + 1,
                   err |-> TRUE]
             ELSE Repair(col.board, col.deck, w + 1, stopOnEmpty)

InitBoardW == 4

\* SetSession.__init__ without its loop: the 3 x 4 cards as dealt
ConstructWithoutLoop(d0) ==
    LET first == DrawColumn(<<>>, d0, Rows * InitBoardW)
    IN  [board |-> first.board, deck |-> first.deck, boardW |-> InitBoardW,
         err |-> first.err]

\* SetSession.__init__: deal 3 x 4 cards, then add columns until a set exists
Construct(d0) ==
    LET first == DrawColumn(<<>>, d0, Rows * InitBoardW)
    IN  IF first.err
        THEN [board |-> first.board, deck |-> first.deck,
              boardW |-> InitBoardW, err |-> TRUE]
        ELSE Repair(first.board, first.deck, InitBoardW, FALSE)

InSeq(x, s) == \E k \in 1..Len(s) : s[k] = x

\* 20 cards without a valid triple among them, the most there can be
CapCards ==
    <<12, 13, 16, 19, 20, 25, 29, 30, 32, 38, 42, 48, 50, 51, 55, 60, 61, 64,
      67, 68>>

\* a shuffle that deals those 20 cards first
CapDeck ==
    CapCards \o SelectSeq([i \in 1..NumCards |-> i - 1],
                          LAMBDA c : ~InSeq(c, CapCards))

\* the shuffles a session is constructed with: NumDecks of the polynomials,
\* and the one that deals the 20 cards without a valid triple first
Decks == { PolyDeck(DeckParams[k]) : k \in 1..NumDecks } \cup {CapDeck}

\* the "replace missing cards" loop reading deck[0] without taking it off
RECURSIVE ReplaceFromKeepingDeck(_, _, _, _)
ReplaceFromKeepingDeck(b, d, cs, i) ==
    IF i > Len(b) THEN [board |-> b, deck |-> d, err |-> FALSE]
    ELSE IF InSeq(b[i], cs)
         THEN IF Len(d) = 0 THEN [board |-> b, deck |-> d, err |-> TRUE]
              ELSE ReplaceFromKeepingDeck([b EXCEPT ![i] = d[1]], d, cs, i + 1)
         ELSE ReplaceFromKeepingDeck(b, d, cs, i + 1)

\* the "replace missing cards" loop of _update_board
RECURSIVE ReplaceFrom(_, _, _, _)
ReplaceFrom(b, d, cs, i) ==
    IF i > Len(b) THEN [board |-> b, deck |-> d, err |-> FALSE]
    ELSE IF InSeq(b[i], cs)
         THEN IF Len(d) = 0 THEN [board |-> b, deck |-> d, err |-> TRUE]
              ELSE ReplaceFrom([b EXCEPT ![i] = d[1]], Drop(d, 1), cs, i + 1)
         ELSE ReplaceFrom(b, d, cs, i + 1)

\* the "try reducing" branch: the kept cards fill a zeroed board of one
\* column less; err when they do not fit (IndexError)
Shrink(b, w, cs) ==
    LET kept == SelectSeq(b, LAMBDA c : ~InSeq(c, cs))
        size == Rows * (w - 1)
    IN  IF Len(kept) > size \/ w - 1 < 0
        THEN [board |-> b, err |-> TRUE]
        ELSE [board |-> [i \in 1..size |->
                            IF i <= Len(kept) THEN kept[i] ELSE 0],
              err |-> FALSE]

ShrinkAbove == 4

\* _update_board without its repair loop
UpdateWithoutRepair(b, d, w, cs) ==
    IF w > ShrinkAbove \/ Len(d) = 0
    THEN LET sh == Shrink(b, w, cs)
         IN  [board |-> sh.board, deck |-> d, boardW |-> w - 1, err |-> sh.err]
    ELSE LET rp == ReplaceFrom(b, d, cs, 1)
         IN  [board |-> rp.board, deck |-> rp.deck, boardW |-> w,
              err |-> rp.err]

\* _update_board reducing the board only once the deck is empty
UpdateNeverShrinking(b, d, w, cs) ==
    IF Len(d) = 0
    THEN LET sh == Shrink(b, w, cs)
         IN  IF sh.err
             THEN [board |-> b, deck |-> d, boardW |-> w - 1, err |-> TRUE]
             ELSE Repair(sh.board, d, w - 1, TRUE)
    ELSE LET rp == ReplaceFrom(b, d, cs, 1)
         IN  IF rp.err
             THEN [board |-> rp.board, deck |-> rp.deck, boardW |-> w,
                   err |-> TRUE]
             ELSE Repair(rp.board, rp.deck, w, TRUE)

_update_board(b, d, w, cs) ==
    IF w > ShrinkAbove \/ Len(d) = 0
    THEN LET sh == Shrink(b, w, cs)
         IN  IF sh.err
             THEN [board |-> b, deck |-> d, boardW |-> w - 1, err |-> TRUE]
             ELSE Repair(sh.board, d, w - 1, TRUE)
    ELSE LET rp == ReplaceFrom(b, d, cs, 1)
         IN  IF rp.err
             THEN [board |-> rp.board, deck |-> rp.deck, boardW |-> w,
                   err |-> TRUE]
             ELSE Repair(rp.board, rp.deck, w, TRUE)

-----------------------------------------------------------------------------
(* Messages and check_set.                                                 *)

Me == "me"
Players == {"alice", "bob"}
Authors == Players \cup {Me}
Here == "here"
Channels == {Here, "elsewhere"}
None == "none"

\* str.upper() on the characters the model's messages are written with
UpperMap ==
    [ch \in {"a", "b", "c", "h", "o", "q"} |->
        CASE ch = "a" -> "A" [] ch = "b" -> "B" [] ch = "c" -> "C"
          [] ch = "h" -> "H" [] ch = "o" -> "O" [] ch = "q" -> "Q"]

Upper(text) ==
    [i \in 1..Len(text) |->
        IF text[i] \in DOMAIN UpperMap THEN UpperMap[text[i]] ELSE text[i]]

\* validLetters of check_set
ValidLetters(w) == { l \in DOMAIN _LETTER_MAP : _LETTER_MAP[l][2] < w }

GuessCards(b, guess) == [i \in 1..3 |-> BoardAt(b, _LETTER_MAP[guess[i]])]

\* the checks of check_set without the test for a repeated letter
WellformedWithRepeats(m, w) ==
    LET guess == Upper(m.content)
    IN  /\ ~(m.channel # Here \/ m.author = Me)
        /\ Len(guess) = 3
        /\ \A i \in 1..3 : guess[i] \in ValidLetters(w)

\* the checks of check_set without the test of the author
WellformedFromAnyone(m, w) ==
    LET guess == Upper(m.content)
    IN  /\ m.channel = Here
        /\ Len(guess) = 3
        /\ ~(guess[1] = guess[2] \/ guess[1] = guess[3] \/ guess[2] = guess[3])
        /\ \A i \in 1..3 : guess[i] \in ValidLetters(w)

\* the checks of check_set before the cards are looked at (lines 104-118)
Wellformed(m, w) ==
    LET guess == Upper(m.content)
    IN  /\ ~(m.channel # Here \/ m.author = Me)
        /\ Len(guess) = 3
        /\ ~(guess[1] = guess[2] \/ guess[1] = guess[3] \/ guess[2] = guess[3])
        /\ \A i \in 1..3 : guess[i] \in ValidLetters(w)

\* what check_set returns
check_set(m, b, w) ==
    /\ Wellformed(m, w)
    /\ _is_set(GuessCards(b, Upper(m.content)))

ScoreOf(sc, a) == IF a \in DOMAIN sc THEN sc[a] ELSE 0

\* Counter: sc[a] += d
Bump(sc, a, d) ==
    [x \in (DOMAIN sc) \cup {a} |-> ScoreOf(sc, x) + (IF x = a THEN d ELSE 0)]

\* the letter of board index i
LetterAt(i) ==
    CHOOSE l \in DOMAIN _LETTER_MAP :
        _LETTER_MAP[l] = <<(i - 1) % Rows, (i - 1) \div Rows>>

\* a set of the board, as the text that calls it: the one with the least
\* first, then second, then third index, typed in another order
HasSetFrom(b, i) ==
    \E j \in (i+1)..Len(b) : \E k \in (j+1)..Len(b) : _is_set(<<b[i], b[j], b[k]>>)

HasSetWith(b, i, j) ==
    \E k \in (j+1)..Len(b) : _is_set(<<b[i], b[j], b[k]>>)

Least(S) == CHOOSE x \in S : \A y \in S : x <= y

FirstSetText(b) ==
    IF ~_board_contains_set(b) THEN {}
    ELSE LET i == Least({x \in 1..Len(b) : HasSetFrom(b, x)})
             j == Least({x \in (i+1)..Len(b) : HasSetWith(b, i, x)})
             k == Least({x \in (j+1)..Len(b) : _is_set(<<b[i], b[j], b[x]>>)})
         IN  { <<LetterAt(k), LetterAt(i), LetterAt(j)>> }

\* texts the players type: the first set of the board, and fixed texts
FixedTexts ==
    { <<"a","h","o">>, <<"D","K","S">>, <<"A","A","B">>, <<"A","A","A">>,
      <<"A","B">>,
      <<"A","B","H","O">>, <<"a","b","q">>, <<"E","L","T">>, <<"G","N","V">> }

\* the messages of the players in the session's channel, and the same texts
\* from the bot itself and in another channel
Messages(b) ==
    LET first == FirstSetText(b)
    IN  [channel : {Here}, author : Players, content : first \cup FixedTexts]
          \cup [channel : {Here}, author : {Me}, content : first]
          \cup [channel : Channels \ {Here}, author : {"alice"},
                content : first]

\* Bounds on what the players send: a player calls wrongly only before having
\* an entry in the scores, and the second player calls at most MaxSecond sets.
MayCallWrong(m) ==
    /\ m.author \notin DOMAIN scores
    /\ Len(wrongAnswers) < MaxQueue

MayCallRight(m) ==
    m.author = "alice" \/ ScoreOf(scores, m.author) < MaxSecond

-----------------------------------------------------------------------------
(* SetSession: one session from construction to its set_end event.         *)
(* pc names the await at which the task of run() is suspended:             *)
(*   created   the task exists and has not run yet                         *)
(*   startup   await ctx.send(startup message)      (_send_startup_msg)    *)
(*   pause     await asyncio.sleep(3)               (_send_startup_msg)    *)
(*   sleep     await asyncio.sleep(2)               (run)                  *)
(*   present   await ctx.send(file=board.png)       (run)                  *)
(*   waiting   await asyncio.gather(wait_for, _wrong_handler())            *)
(*   reply     await ctx.send("Set! +1 point")      (wait_for_set)         *)
(*   table     await ctx.send(table)                (send_table)           *)
(*   done      run() returned;  crashed: run() raised                      *)
(* hpc does the same for _wrong_handler: idle (not running), sleep         *)
(* (asyncio.sleep(.25)), send (await ctx.send("not a set")), done.         *)

Send(kind) == <<kind, 1 - sent[2]>>

InitSet ==
    \E d0 \in Decks :
      LET c == Construct(d0)
      IN  /\ board = c.board
          /\ deck = c.deck
          /\ boardW = c.boardW
          /\ pc = IF c.err THEN "crashed" ELSE "created"
          /\ scores = << >>
          /\ foundSet = FALSE
          /\ wrongAnswers = << >>
          /\ game_running = FALSE
          /\ hpc = "idle"
          /\ waitMsg = << >>
          /\ cards = << >>
          /\ sent = <<None, 0>>
          /\ setEnd = 0
          /\ calls = [a \in Players |-> [wrong |-> 0, right |-> 0]]
          /\ removed = << >>

\* run() starts: _send_startup_msg sends the startup message
RunStart ==
    /\ UNCHANGED outsideSet
    /\ UNCHANGED <<calls, removed>>
    /\ pc = "created"
    /\ pc' = "startup"
    /\ sent' = Send("startup")
    /\ UNCHANGED <<board, deck, boardW, scores, foundSet, wrongAnswers,
                   game_running, hpc, waitMsg, cards, setEnd>>

StartupPause ==
    /\ UNCHANGED outsideSet
    /\ UNCHANGED <<calls, removed>>
    /\ pc = "startup"
    /\ pc' = "pause"
    /\ UNCHANGED <<board, deck, boardW, scores, foundSet, wrongAnswers,
                   game_running, hpc, waitMsg, cards, sent, setEnd>>

\* game_running = True; while game_running: await asyncio.sleep(2)
LoopEnter ==
    /\ UNCHANGED outsideSet
    /\ UNCHANGED <<calls, removed>>
    /\ pc = "pause"
    /\ game_running' = TRUE
    /\ pc' = "sleep"
    /\ UNCHANGED <<board, deck, boardW, scores, foundSet, wrongAnswers,
                   hpc, waitMsg, cards, sent, setEnd>>

\* await ctx.send(file=f)
Present ==
    /\ UNCHANGED outsideSet
    /\ UNCHANGED <<calls, removed>>
    /\ pc = "sleep"
    /\ pc' = "present"
    /\ sent' = Send("board")
    /\ UNCHANGED <<board, deck, boardW, scores, foundSet, wrongAnswers,
                   game_running, hpc, waitMsg, cards, setEnd>>

\* wait_for_set up to the gather: the listener is registered and
\* _wrong_handler runs to its first sleep
EnterWait ==
    /\ UNCHANGED outsideSet
    /\ UNCHANGED <<calls, removed>>
    /\ pc = "present"
    /\ foundSet' = FALSE
    /\ wrongAnswers' = << >>
    /\ waitMsg' = << >>
    /\ pc' = "waiting"
    /\ hpc' = "sleep"
    /\ UNCHANGED <<board, deck, boardW, scores, game_running, cards, sent,
                   setEnd>>

\* check_set taking the point of a wrong call itself
OnMessagePenalising(m) ==
    /\ UNCHANGED outsideSet
    /\ pc = "waiting"
    /\ waitMsg = << >>
    /\ IF ~Wellformed(m, boardW)
       THEN UNCHANGED <<wrongAnswers, foundSet, waitMsg, scores, calls>>
       ELSE IF ~_is_set(GuessCards(board, Upper(m.content)))
       THEN /\ MayCallWrong(m)
            /\ wrongAnswers' = Append(wrongAnswers, m)
            /\ calls' = [calls EXCEPT ![m.author].wrong = @ + 1]
            /\ scores' = Bump(scores, m.author, -1)
            /\ UNCHANGED <<foundSet, waitMsg>>
       ELSE /\ MayCallRight(m)
            /\ foundSet' = TRUE
            /\ calls' = [calls EXCEPT ![m.author].right = @ + 1]
            /\ waitMsg' = <<m>>
            /\ UNCHANGED <<wrongAnswers, scores>>
    /\ UNCHANGED <<board, deck, boardW, game_running, pc, hpc, cards, sent,
                   setEnd, removed>>

\* a message event reaches the listener: check_set(message)
OnMessage(m) ==
    /\ UNCHANGED outsideSet
    /\ pc = "waiting"
    /\ waitMsg = << >>
    /\ IF ~Wellformed(m, boardW)
       THEN UNCHANGED <<wrongAnswers, foundSet, waitMsg, calls>>
       ELSE IF ~_is_set(GuessCards(board, Upper(m.content)))
       THEN /\ MayCallWrong(m)
            /\ wrongAnswers' = Append(wrongAnswers, m)
            /\ calls' = [calls EXCEPT ![m.author].wrong = @ + 1]
            /\ UNCHANGED <<foundSet, waitMsg>>
       ELSE /\ MayCallRight(m)
            /\ foundSet' = TRUE
            /\ calls' = [calls EXCEPT ![m.author].right = @ + 1]
            /\ waitMsg' = <<m>>
            /\ UNCHANGED wrongAnswers
    /\ UNCHANGED <<board, deck, boardW, scores, game_running, pc, hpc, cards,
                   sent, setEnd, removed>>

\* _wrong_handler wakes from sleep(.25) with a wrong call queued, or with the
\* set found and the queue empty (a wake-up with neither sleeps again)
HandlerWake ==
    /\ UNCHANGED outsideSet
    /\ UNCHANGED <<calls, removed>>
    /\ hpc = "sleep"
    /\ IF Len(wrongAnswers) > 0
       THEN /\ scores' = Bump(scores, wrongAnswers[1].author, -1)
            /\ sent' = Send("notset")
            /\ hpc' = "send"
       ELSE /\ foundSet
            /\ hpc' = "done"
            /\ UNCHANGED <<scores, sent>>
    /\ UNCHANGED <<board, deck, boardW, foundSet, wrongAnswers, game_running,
                   pc, waitMsg, cards, setEnd>>

\* the "not a set" message is sent and the whole queue emptied, the calls
\* that arrived during the announcement with it
HandlerSentDropsQueue ==
    /\ UNCHANGED outsideSet
    /\ UNCHANGED <<calls, removed>>
    /\ hpc = "send"
    /\ wrongAnswers' = << >>
    /\ hpc' = IF foundSet THEN "done" ELSE "sleep"
    /\ UNCHANGED <<board, deck, boardW, scores, sent, foundSet, game_running,
                   pc, waitMsg, cards, setEnd>>

\* the "not a set" message is sent: drop the call, then the loop again
HandlerSent ==
    /\ UNCHANGED outsideSet
    /\ UNCHANGED <<calls, removed>>
    /\ hpc = "send"
    /\ wrongAnswers' = Tail(wrongAnswers)
    /\ IF Len(wrongAnswers') > 0
       THEN /\ scores' = Bump(scores, wrongAnswers'[1].author, -1)
            /\ sent' = Send("notset")
            /\ hpc' = "send"
       ELSE /\ hpc' = IF foundSet THEN "done" ELSE "sleep"
            /\ UNCHANGED <<scores, sent>>
    /\ UNCHANGED <<board, deck, boardW, foundSet, game_running, pc, waitMsg,
                   cards, setEnd>>

\* wait_for_set awaiting the listener alone, _wrong_handler left behind
GatherDoneListenerOnly ==
    /\ UNCHANGED outsideSet
    /\ UNCHANGED <<calls, removed>>
    /\ pc = "waiting"
    /\ waitMsg # << >>
    /\ cards' = GuessCards(board, Upper(waitMsg[1].content))
    /\ scores' = Bump(scores, waitMsg[1].author, 1)
    /\ sent' = Send("set")
    /\ pc' = "reply"
    /\ hpc' = "idle"
    /\ UNCHANGED <<board, deck, boardW, foundSet, wrongAnswers, game_running,
                   waitMsg, setEnd>>

\* the gather is complete: wait_for_set scores the call and announces it
GatherDone ==
    /\ UNCHANGED outsideSet
    /\ UNCHANGED <<calls, removed>>
    /\ pc = "waiting"
    /\ waitMsg # << >>
    /\ hpc = "done"
    /\ cards' = GuessCards(board, Upper(waitMsg[1].content))
    /\ scores' = Bump(scores, waitMsg[1].author, 1)
    /\ sent' = Send("set")
    /\ pc' = "reply"
    /\ hpc' = "idle"
    /\ UNCHANGED <<board, deck, boardW, foundSet, wrongAnswers, game_running,
                   waitMsg, setEnd>>

\* run() ending the game as soon as the deck is empty, whatever the board holds
ReplySentOnEmptyDeck ==
    /\ UNCHANGED outsideSet
    /\ UNCHANGED calls
    /\ removed' = Append(removed, [cards |-> cards, boardW |-> boardW])
    /\ pc = "reply"
    /\ LET u == _update_board(board, deck, boardW, cards)
       IN  /\ board' = u.board
           /\ deck' = u.deck
           /\ boardW' = u.boardW
           /\ IF u.err
              THEN /\ pc' = "crashed"
                   /\ UNCHANGED <<game_running, sent, setEnd>>
              ELSE IF Len(u.deck) # 0
              THEN /\ pc' = "sleep"
                   /\ UNCHANGED <<game_running, sent, setEnd>>
              ELSE /\ game_running' = FALSE
                   /\ pc' = "table"
                   /\ sent' = Send("table")
                   /\ UNCHANGED setEnd
    /\ UNCHANGED <<scores, foundSet, wrongAnswers, hpc, waitMsg, cards>>

\* wait_for_set returns; run() updates the board and loops or ends the game
ReplySent ==
    /\ UNCHANGED outsideSet
    /\ UNCHANGED calls
    /\ removed' = Append(removed, [cards |-> cards, boardW |-> boardW])
    /\ pc = "reply"
    /\ LET u == _update_board(board, deck, boardW, cards)
       IN  /\ board' = u.board
           /\ deck' = u.deck
           /\ boardW' = u.boardW
           /\ IF u.err
              THEN /\ pc' = "crashed"
                   /\ UNCHANGED <<game_running, sent, setEnd>>
              ELSE IF _board_contains_set(u.board)
              THEN /\ pc' = "sleep"
                   /\ UNCHANGED <<game_running, sent, setEnd>>
              ELSE /\ game_running' = FALSE
                   /\ IF DOMAIN scores # {}
                      THEN /\ pc' = "table"
                           /\ sent' = Send("table")
                           /\ UNCHANGED setEnd
                      ELSE /\ pc' = "done"
                           /\ setEnd' = setEnd + 1
                           /\ UNCHANGED sent
    /\ UNCHANGED <<scores, foundSet, wrongAnswers, hpc, waitMsg, cards>>

\* end_game after send_table: stop() dispatches set_end
TableSent ==
    /\ UNCHANGED outsideSet
    /\ UNCHANGED <<calls, removed>>
    /\ pc = "table"
    /\ pc' = "done"
    /\ setEnd' = setEnd + 1
    /\ UNCHANGED <<board, deck, boardW, scores, foundSet, wrongAnswers,
                   game_running, hpc, waitMsg, cards, sent>>

NextSet ==
    \/ RunStart
    \/ StartupPause
    \/ LoopEnter
    \/ Present
    \/ EnterWait
    \/ (pc = "waiting" /\ waitMsg = << >> /\ \E m \in Messages(board) : OnMessage(m))
    \/ HandlerWake
    \/ HandlerSent
    \/ GatherDone
    \/ ReplySent
    \/ TableSent


-----------------------------------------------------------------------------
(* Trivia: texts, _parse_answers and the predicate of check_answer.        *)

Str(text) == [t |-> "str", v |-> text]
Bool(b) == [t |-> "bool", v |-> b]
Dict(d) == [t |-> "dict", v |-> d]
Num(n) == [t |-> "int", v |-> n]

\* str(n) of a natural number
DigitChars == <<"0", "1", "2", "3", "4", "5", "6", "7", "8", "9">>

RECURSIVE Decimal(_)
Decimal(n) ==
    IF n < 10 THEN <<DigitChars[n + 1]>>
    ELSE Decimal(n \div 10) \o <<DigitChars[(n % 10) + 1]>>

TextTrue == <<"T","r","u","e">>
TextYes == <<"Y","e","s">>
TextOn == <<"O","n">>
TextFalse == <<"F","a","l","s","e">>
TextNo == <<"N","o">>
TextOff == <<"O","f","f">>

\* the strings made unique by keeping the last occurrence of each
RECURSIVE UniquifyKeepingLast(_, _)
UniquifyKeepingLast(ret, seen) ==
    IF ret = << >> THEN << >>
    ELSE IF \E k \in 2..Len(ret) : ret[k] = Head(ret)
         THEN UniquifyKeepingLast(Tail(ret), seen)
         ELSE <<Head(ret)>> \o UniquifyKeepingLast(Tail(ret), seen)

\* x not in seen, keeping the first occurrence
RECURSIVE Uniquify(_, _)
Uniquify(ret, seen) ==
    IF ret = << >> THEN << >>
    ELSE IF Head(ret) \in seen THEN Uniquify(Tail(ret), seen)
    ELSE <<Head(ret)>> \o Uniquify(Tail(ret), seen \cup {Head(ret)})

RECURSIVE ParseRet(_)
ParseRet(raw) ==
    IF raw = << >> THEN << >>
    ELSE LET a == Head(raw)
         IN  (IF a.t = "bool"
              THEN IF a.v THEN <<TextTrue, TextYes, TextOn>>
                          ELSE <<TextFalse, TextNo, TextOff>>
              ELSE IF a.t = "dict" THEN << >>
              ELSE IF a.t = "int" THEN <<Decimal(a.v)>>
              ELSE <<a.v>>) \o ParseRet(Tail(raw))

\* tuple(dicts) + tuple(unique strings), both as tagged entries
_parse_answers(raw) ==
    LET dicts == SelectSeq(raw, LAMBDA a : a.t = "dict")
        uniq == Uniquify(ParseRet(raw), {})
    IN  dicts \o [i \in 1..Len(uniq) |-> Str(uniq[i])]

LowerMap ==
    [ch \in {"R", "Y", "T", "O", "N", "F", "E", "S", "M"} |->
        CASE ch = "R" -> "r" [] ch = "Y" -> "y" [] ch = "T" -> "t"
          [] ch = "O" -> "o" [] ch = "N" -> "n" [] ch = "F" -> "f"
          [] ch = "E" -> "e" [] ch = "S" -> "s" [] ch = "M" -> "m"]

LowerCh(ch) == IF ch \in DOMAIN LowerMap THEN LowerMap[ch] ELSE ch
Lower(text) == [i \in 1..Len(text) |-> LowerCh(text[i])]

IsSpace(ch) == ch = " "
\* \w of the characters the model's texts are written with
IsWord(ch) == ch \notin {" ", "!", "'", ".", "?", "rsquo"}

RECURSIVE LStrip(_)
LStrip(text) ==
    IF text # << >> /\ IsSpace(Head(text)) THEN LStrip(Tail(text)) ELSE text

RECURSIVE RStrip(_)
RStrip(text) ==
    IF text # << >> /\ IsSpace(text[Len(text)])
    THEN RStrip(SubSeq(text, 1, Len(text) - 1)) ELSE text

\* re.sub(r'\s+', ' ', text)
RECURSIVE Collapse(_)
Collapse(text) ==
    IF text = << >> THEN << >>
    ELSE IF IsSpace(Head(text))
         THEN <<" ">> \o Collapse(LStrip(text))
         ELSE <<Head(text)>> \o Collapse(Tail(text))

\* normalize_smartquotes: the curly quotes become straight ones; the
\* character U+2019 is written "rsquo"
NormalizeQuotes(text) ==
    [i \in 1..Len(text) |-> IF text[i] = "rsquo" THEN "'" ELSE text[i]]

Guess(content) == NormalizeQuotes(Collapse(RStrip(LStrip(Lower(content)))))

\* \b at offset p of g: between g[p] and g[p+1]
Boundary(g, p) ==
    (p >= 1 /\ IsWord(g[p])) # (p < Len(g) /\ IsWord(g[p+1]))

\* re.compile(f'\\b{s}\\b', re.I).search(g), for an answer s without regular
\* expression operators
Search(s, g) ==
    \E p \in 0..(Len(g) - Len(s)) :
        /\ Boundary(g, p)
        /\ \A k \in 1..Len(s) : LowerCh(g[p+k]) = LowerCh(s[k])
        /\ Boundary(g, p + Len(s))

\* the early exit of _pred
EarlyExit(m) == m.channel # Here \/ m.author = Me

\* what _pred returns
Pred(ans, m) ==
    /\ ~EarlyExit(m)
    /\ \E i \in 1..Len(ans) : Search(ans[i], Guess(m.content))

-----------------------------------------------------------------------------
(* TriviaSession: one session and its reveal task.                         *)
(* t_pc names the await at which the task of run() is suspended:           *)
(*   off       no trivia session (the other specifications)                *)
(*   created   the task exists and has not run yet                         *)
(*   startup   await ctx.send("Starting Trivia ...")                       *)
(*   typing    async with ctx.typing(): await asyncio.sleep(3)             *)
(*   ask       await ctx.send(question)                                    *)
(*   waiting   await bot.wait_for("message", check, timeout=delay)         *)
(*   guys      await ctx.send("Guys...? Well, I guess I'll stop then.")    *)
(*   fail      await ctx.send(reply)     in the TimeoutError branch        *)
(*   gotit     await ctx.send(reply)     in the else branch                *)
(*   nomore    await ctx.send("There are no more questions!")              *)
(*   table     await ctx.send(table)              (send_table)             *)
(*   deposit   await bank.deposit_credits(...)    (pay_winner)             *)
(*   congrats  await ctx.send("Congratulations ...")                       *)
(*   done      run() returned; cancelled, crashed: run() raised            *)
(* Time passes in the two timed awaits only (typing, waiting), one second  *)
(* per Tick; idle is the time since _last_response, kept up to the timeout.*)

TypingSleep == 3

TScoreOf(sc, a) ==
    IF \E i \in 1..Len(sc) : sc[i].who = a
    THEN sc[CHOOSE i \in 1..Len(sc) : sc[i].who = a].n
    ELSE 0

\* Counter: sc[a] += 2
TBumpByTwo(sc, a) ==
    IF \E i \in 1..Len(sc) : sc[i].who = a
    THEN [i \in 1..Len(sc) |->
            IF sc[i].who = a THEN [who |-> a, n |-> sc[i].n + 2] ELSE sc[i]]
    ELSE Append(sc, [who |-> a, n |-> 2])

\* Counter: sc[a] += 1; a new key is inserted last
TBump(sc, a) ==
    IF \E i \in 1..Len(sc) : sc[i].who = a
    THEN [i \in 1..Len(sc) |->
            IF sc[i].who = a THEN [who |-> a, n |-> sc[i].n + 1] ELSE sc[i]]
    ELSE Append(sc, [who |-> a, n |-> 1])

TSend(kind) == <<kind, 1 - t_sent[2]>>

\* the pool of questions: <<question, raw answers>>
QuestionPool ==
    << <<"q1", <<Str(<<"R","o","m","e">>)>> >>,
       <<"q2", <<Bool(TRUE)>> >>,
       <<"q3", <<Str(<<"N","o">>), Bool(FALSE),
                 Dict([delay_factor |-> 2, slow_reveal |-> 1]),
                 Dict([half_reveal |-> 1])>> >>,
       <<"q4", <<Str(<<"r","o","m","e","o">>)>> >> >>

\* questions whose answers have no letter or digit, or no string at all
OddPool ==
    << <<"q5", <<Str(<<"!","?">>), Dict([half_reveal |-> 1])>> >>,
       <<"q6", <<Dict([delay_factor |-> 2])>> >> >>

\* question lists that hold one of them
OddLists ==
    { <<QuestionPool[1], OddPool[k], QuestionPool[2]>> : k \in 1..Len(OddPool) }

\* random.shuffle: the rotations of the session's questions
Shuffles ==
    { [i \in 1..NumQuestions |-> ((i + r - 1) % NumQuestions) + 1] :
        r \in 0..(NumQuestions - 1) }

Setting(ms, sr, ra, bp, pm) ==
    [max_score |-> ms, delay |-> 2, timeout |-> 6, slow_reveal |-> sr,
     half_reveal |-> 0, reveal_answer |-> ra, bot_plays |-> bp,
     payout_multiplier |-> pm]

SettingsList ==
    << Setting(2, 0, FALSE, FALSE, 4),
       Setting(1, 1, TRUE, TRUE, 0),
       Setting(2, 1, FALSE, TRUE, 4),
       Setting(2, 0, TRUE, FALSE, 0),
       Setting(1, 0, FALSE, FALSE, 4),
       Setting(3, 1, TRUE, FALSE, 4) >>

SettingsSet == { SettingsList[k] : k \in 1..NumSettings }

TrivPlayers == Players \cup {"carol"}

Msg(a, text) == [channel |-> Here, author |-> a, content |-> text]

\* what the participants type
TrivMessages ==
    { Msg("alice", <<"r","o","m","e">>), Msg("alice", <<" ","Y","E","S","!">>),
      Msg("bob", <<" ","Y","E","S","!">>), Msg("bob", <<"n","o">>),
      Msg("carol", <<"n","o">>), Msg("carol", <<"r","o","m","e","o">>),
      Msg(Me, <<"r","o","m","e">>),
      [channel |-> "elsewhere", author |-> "alice", content |-> <<"r","o","m","e">>] }

InitTrivia ==
    /\ \/ \E q \in Shuffles :
             question_list = [i \in 1..NumQuestions |-> QuestionPool[q[i]]]
       \/ question_list \in OddLists
    /\ settings \in SettingsSet
    /\ t_scores = << >>
    /\ count = 0
    /\ idle = 0
    /\ t_pc = "created"
    /\ t_cancel = FALSE
    /\ qidx = 0
    /\ waited = 0
    /\ answers = << >>
    /\ t_waitMsg = << >>
    /\ wait_args = [delay |-> 0, slow_reveal |-> 0, half_reveal |-> 0]
    /\ r_pc = "none"
    /\ revealed = 0
    /\ t_sent = <<None, 0>>
    /\ trivEnd = 0
    /\ deposits = << >>
    /\ stopped_at = None

\* the overrides of run(): the last dict entry that has the key wins
RECURSIVE Override(_, _, _)
Override(entries, key, default) ==
    IF entries = << >> THEN default
    ELSE LET e == Head(entries)
             d == IF e.t = "dict" /\ key \in DOMAIN e.v THEN e.v[key] ELSE default
         IN  Override(Tail(entries), key, d)

StrAnswers(entries) ==
    LET strs == SelectSeq(entries, LAMBDA a : a.t = "str")
    IN  [i \in 1..Len(strs) |-> strs[i].v]

\* len(re.findall(r'\w', answers[0]))
LetterCount(ans) ==
    Cardinality({i \in 1..Len(ans[1]) : IsWord(ans[1][i])})

IsAlnum(ch) == IsWord(ch) /\ ch # "_"

\* the number of positions reveal_answer hides
HiddenCount(ans) ==
    Cardinality({i \in 1..Len(ans[1]) : IsAlnum(ans[1][i])})

\* the setup with the smaller of the two intervals taken
WaitSetupFaster(ans, slow, half) ==
    IF half # 0 /\ (ans = << >> \/ LetterCount(ans) = 0)
    THEN [err |-> TRUE, reveal |-> FALSE, num |-> slow, den |-> 1]
    ELSE LET lc == IF half # 0 THEN LetterCount(ans) ELSE 1
             useHalf == half # 0 /\ 2 * half < slow * lc
             num == IF useHalf THEN 2 * half ELSE slow
             den == IF useHalf THEN lc ELSE 1
         IN  IF num # 0 /\ ans = << >>
             THEN [err |-> TRUE, reveal |-> FALSE, num |-> num, den |-> den]
             ELSE [err |-> FALSE, reveal |-> num # 0, num |-> num, den |-> den]

\* the try block of wait_for_answer up to the await: err when answers[0] does
\* not exist or letter_count is 0; reveal when a reveal task is created.
\* The interval max(slow_reveal, 2.0*half_reveal/letter_count) is num/den.
WaitSetup(ans, slow, half) ==
    IF half # 0 /\ (ans = << >> \/ LetterCount(ans) = 0)
    THEN [err |-> TRUE, reveal |-> FALSE, num |-> slow, den |-> 1]
    ELSE LET lc == IF half # 0 THEN LetterCount(ans) ELSE 1
             useHalf == half # 0 /\ 2 * half > slow * lc
             num == IF useHalf THEN 2 * half ELSE slow
             den == IF useHalf THEN lc ELSE 1
         IN  IF num # 0 /\ ans = << >>
             THEN [err |-> TRUE, reveal |-> FALSE, num |-> num, den |-> den]
             ELSE [err |-> FALSE, reveal |-> num # 0, num |-> num, den |-> den]

\* ---- the steps of run() ----

\* self.stop(): dispatch("trivia_end")
FragStop ==
    /\ t_pc' = "done"
    /\ trivEnd' = trivEnd + 1
    /\ UNCHANGED <<t_sent, deposits, qidx, waited>>

\* most_common(1): the first entry with the highest score
TopEntry(sc) ==
    sc[CHOOSE i \in 1..Len(sc) :
          /\ \A j \in 1..Len(sc) : sc[j].n <= sc[i].n
          /\ \A j \in 1..(i-1) : sc[j].n < sc[i].n]

MinContestants == 3

\* the multiplier is a float: the model writes it in units of 1/PayDen, which
\* floats hold exactly (4 is 2.0, 3 is 1.5, 1 is 0.5)
PayDen == 2

\* int(multiplier * score) with the product rounded up
AmountRoundedUp(multiplier, score) ==
    (multiplier * score + PayDen - 1) \div PayDen

\* int(multiplier * score)
Amount(multiplier, score) == (multiplier * score) \div PayDen

\* pay_winner pays: the deposit it makes, or << >>
Payment(sc, multiplier) ==
    IF sc = << >> THEN << >>
    ELSE LET top == TopEntry(sc)
             contestants == {sc[i].who : i \in 1..Len(sc)} \ {Me}
         IN  IF /\ top.who # Me
                /\ top.n > 0
                /\ Cardinality(contestants) >= MinContestants
                /\ Amount(multiplier, top.n) > 0
             THEN <<top.who, Amount(multiplier, top.n)>>
             ELSE << >>

\* the participants and multipliers pay_winner is called with by itself
PayPlayers == TrivPlayers \cup {"dave", Me}
Multipliers == {0, 1, 3, 4}

\* end_game from "multiplier = ..." on: the deposit made, or << >>
EndGamePayment(sc, multiplier) ==
    IF multiplier > 0 THEN Payment(sc, multiplier) ELSE << >>

\* end_game after the table: pay_winner, then stop()
FragPay ==
    IF EndGamePayment(t_scores, settings.payout_multiplier) # << >>
    THEN /\ deposits' = Append(deposits, Payment(t_scores, settings.payout_multiplier))
         /\ t_pc' = "deposit"
         /\ UNCHANGED <<t_sent, trivEnd, qidx, waited>>
    ELSE FragStop

\* end_game with the scores sc
FragEndGame(sc) ==
    IF sc # << >>
    THEN /\ t_sent' = TSend("table")
         /\ t_pc' = "table"
         /\ UNCHANGED <<trivEnd, deposits, qidx, waited>>
    ELSE FragPay

\* the for loop takes the next question, or its else branch runs
FragNext ==
    IF qidx < Len(question_list)
    THEN /\ qidx' = qidx + 1
         /\ t_pc' = "typing"
         /\ waited' = 0
         /\ UNCHANGED <<t_sent, trivEnd, deposits, stopped_at>>
    ELSE /\ t_sent' = TSend("nomore")
         /\ t_pc' = "nomore"
         /\ UNCHANGED <<qidx, trivEnd, deposits, waited>>

\* the score cap compared with > instead of >=
FragLoopAboveCap(sc) ==
    IF \E i \in 1..Len(sc) : sc[i].n > settings.max_score
    THEN FragEndGame(sc)
    ELSE FragNext

\* after wait_for_answer returned True
FragLoop(sc) ==
    IF \E i \in 1..Len(sc) : sc[i].n >= settings.max_score
    THEN FragEndGame(sc)
    ELSE FragNext

Runs == ~t_cancel

T_Start ==
    /\ UNCHANGED outsideTrivia
    /\ t_pc = "created" /\ Runs
    /\ t_pc' = "startup"
    /\ t_sent' = TSend("startup")
    /\ UNCHANGED <<question_list, settings, t_scores, count, idle, t_cancel,
                   qidx, waited, answers, t_waitMsg, wait_args, r_pc,
                   revealed, trivEnd, deposits, stopped_at>>

T_FirstQuestion ==
    /\ UNCHANGED outsideTrivia
    /\ t_pc = "startup" /\ Runs
    /\ FragNext
    /\ UNCHANGED <<question_list, settings, t_scores, count, idle, t_cancel,
                   answers, t_waitMsg, wait_args, r_pc, revealed, stopped_at>>

\* a second passes in a timed await; the wait_for timer fires when due
Tick ==
    /\ UNCHANGED outsideTrivia
    /\ \/ t_pc = "typing" /\ waited < TypingSleep
       \/ t_pc = "waiting" /\ waited < wait_args.delay /\ t_waitMsg = << >>
    /\ waited' = waited + 1
    /\ idle' = IF idle < settings.timeout THEN idle + 1 ELSE idle
    /\ UNCHANGED <<question_list, settings, t_scores, count, t_pc, t_cancel,
                   qidx, answers, t_waitMsg, wait_args, r_pc, revealed,
                   t_sent, trivEnd, deposits, stopped_at>>

\* the overrides of a question left in force for the questions after it
T_AskKeepingOverrides ==
    /\ UNCHANGED outsideTrivia
    /\ t_pc = "typing" /\ Runs
    /\ waited = TypingSleep
    /\ LET parsed == _parse_answers(question_list[qidx][2])
           last == IF qidx > 1 THEN wait_args
                   ELSE [delay |-> settings.delay,
                         slow_reveal |-> settings.slow_reveal,
                         half_reveal |-> settings.half_reveal]
       IN  /\ count' = count + 1
           /\ answers' = StrAnswers(parsed)
           /\ wait_args' =
                [delay |-> last.delay * Override(parsed, "delay_factor", 1),
                 slow_reveal |-> Override(parsed, "slow_reveal", last.slow_reveal),
                 half_reveal |-> Override(parsed, "half_reveal", last.half_reveal)]
    /\ t_sent' = TSend("question")
    /\ t_pc' = "ask"
    /\ UNCHANGED <<question_list, settings, t_scores, idle, t_cancel, qidx,
                   waited, t_waitMsg, r_pc, revealed, trivEnd, deposits, stopped_at>>

\* after the sleep: count, the overrides, the question is sent
T_Ask ==
    /\ UNCHANGED outsideTrivia
    /\ t_pc = "typing" /\ Runs
    /\ waited = TypingSleep
    /\ LET parsed == _parse_answers(question_list[qidx][2])
       IN  /\ count' = count + 1
           /\ answers' = StrAnswers(parsed)
           /\ wait_args' =
                [delay |-> settings.delay * Override(parsed, "delay_factor", 1),
                 slow_reveal |-> Override(parsed, "slow_reveal", settings.slow_reveal),
                 half_reveal |-> Override(parsed, "half_reveal", settings.half_reveal)]
    /\ t_sent' = TSend("question")
    /\ t_pc' = "ask"
    /\ UNCHANGED <<question_list, settings, t_scores, idle, t_cancel, qidx,
                   waited, t_waitMsg, r_pc, revealed, trivEnd, deposits, stopped_at>>

\* wait_for_answer up to its await; reveal_answer starts with its first sleep
\* or ends at once when nothing is hidden
T_EnterWait ==
    /\ UNCHANGED outsideTrivia
    /\ t_pc = "ask" /\ Runs
    /\ LET su == WaitSetup(answers, wait_args.slow_reveal, wait_args.half_reveal)
       IN  IF su.err
           THEN /\ t_pc' = "crashed"
                /\ UNCHANGED <<r_pc, revealed, waited, t_waitMsg>>
           ELSE /\ t_pc' = "waiting"
                /\ waited' = 0
                /\ t_waitMsg' = << >>
                /\ revealed' = 0
                /\ r_pc' = IF ~su.reveal THEN "none"
                           ELSE IF HiddenCount(answers) = 0 THEN "done"
                           ELSE "sleep"
    /\ UNCHANGED <<question_list, settings, t_scores, count, idle, t_cancel,
                   qidx, answers, wait_args, t_sent, trivEnd, deposits, stopped_at>>

\* a message event reaches the listener: _pred(message)
T_Message(m) ==
    /\ UNCHANGED outsideTrivia
    /\ t_pc = "waiting"
    /\ t_waitMsg = << >>
    /\ idle' = IF EarlyExit(m) THEN idle ELSE 0
    /\ t_waitMsg' = IF Pred(answers, m) THEN <<m>> ELSE << >>
    /\ UNCHANGED <<question_list, settings, t_scores, count, t_pc, t_cancel,
                   qidx, waited, answers, wait_args, r_pc, revealed, t_sent,
                   trivEnd, deposits, stopped_at>>

\* the else branch of wait_for_answer
T_Matched ==
    /\ UNCHANGED outsideTrivia
    /\ t_pc = "waiting" /\ Runs
    /\ t_waitMsg # << >>
    /\ t_scores' = TBump(t_scores, t_waitMsg[1].author)
    /\ t_sent' = TSend("gotit")
    /\ t_pc' = "gotit"
    /\ UNCHANGED <<question_list, settings, count, idle, t_cancel, qidx,
                   waited, answers, t_waitMsg, wait_args, r_pc, revealed,
                   trivEnd, deposits, stopped_at>>

\* the TimeoutError branch with the inactivity compared with > instead of >=
T_TimeoutLate ==
    /\ UNCHANGED outsideTrivia
    /\ t_pc = "waiting" /\ Runs
    /\ t_waitMsg = << >>
    /\ waited >= wait_args.delay
    /\ IF idle > settings.timeout
       THEN /\ t_sent' = TSend("guys")
            /\ t_pc' = "guys"
            /\ UNCHANGED t_scores
       ELSE IF settings.reveal_answer /\ answers = << >>
       THEN /\ t_pc' = "crashed"
            /\ UNCHANGED <<t_sent, t_scores>>
       ELSE /\ t_sent' = TSend(IF settings.reveal_answer THEN "reveal" ELSE "fail")
            /\ t_scores' = IF settings.bot_plays THEN TBump(t_scores, Me)
                           ELSE t_scores
            /\ t_pc' = "fail"
    /\ UNCHANGED <<question_list, settings, count, idle, t_cancel, qidx,
                   waited, answers, t_waitMsg, wait_args, r_pc, revealed,
                   trivEnd, deposits, stopped_at>>

\* the TimeoutError branch of wait_for_answer; answers[0] of the reveal
\* message raises IndexError when no answer is a string
T_Timeout ==
    /\ UNCHANGED outsideTrivia
    /\ t_pc = "waiting" /\ Runs
    /\ t_waitMsg = << >>
    /\ waited >= wait_args.delay
    /\ IF idle >= settings.timeout
       THEN /\ t_sent' = TSend("guys")
            /\ t_pc' = "guys"
            /\ UNCHANGED t_scores
       ELSE IF settings.reveal_answer /\ answers = << >>
       THEN /\ t_pc' = "crashed"
            /\ UNCHANGED <<t_sent, t_scores>>
       ELSE /\ t_sent' = TSend(IF settings.reveal_answer THEN "reveal" ELSE "fail")
            /\ t_scores' = IF settings.bot_plays THEN TBump(t_scores, Me)
                           ELSE t_scores
            /\ t_pc' = "fail"
    /\ UNCHANGED <<question_list, settings, count, idle, t_cancel, qidx,
                   waited, answers, t_waitMsg, wait_args, r_pc, revealed,
                   trivEnd, deposits, stopped_at>>

\* wait_for_answer left without its finally block
RevealLeftRunning == r_pc

\* finally: reveal_task.cancel()
RevealCancelled == IF r_pc \in {"sleep", "send"} THEN "cancelled" ELSE r_pc

\* "Guys...?" is sent and stop() called, with the return value False ignored
\* by run(): the loop goes on
T_GuysSentGoesOn ==
    /\ UNCHANGED outsideTrivia
    /\ t_pc = "guys" /\ Runs
    /\ trivEnd' = trivEnd + 1
    /\ r_pc' = RevealCancelled
    /\ IF qidx < Len(question_list)
       THEN qidx' = qidx + 1 /\ t_pc' = "typing" /\ waited' = 0
       ELSE t_pc' = "done" /\ UNCHANGED <<qidx, waited>>
    /\ UNCHANGED <<question_list, settings, t_scores, count, idle, t_cancel,
                   answers, t_waitMsg, wait_args, revealed, t_sent, deposits,
                   stopped_at>>

\* "Guys...?" is sent: stop(), return False, and run() leaves the loop
T_GuysSent ==
    /\ UNCHANGED outsideTrivia
    /\ t_pc = "guys" /\ Runs
    /\ FragStop
    /\ r_pc' = RevealCancelled
    /\ UNCHANGED <<question_list, settings, t_scores, count, idle, t_cancel,
                   answers, t_waitMsg, wait_args, revealed, stopped_at>>

\* the reply is sent: return True, then the score cap and the next question
T_ReplySent ==
    /\ UNCHANGED outsideTrivia
    /\ t_pc \in {"fail", "gotit"} /\ Runs
    /\ r_pc' = RevealCancelled
    /\ FragLoop(t_scores)
    /\ UNCHANGED <<question_list, settings, t_scores, count, idle, t_cancel,
                   answers, t_waitMsg, wait_args, revealed, stopped_at>>

T_NoMoreSent ==
    /\ UNCHANGED outsideTrivia
    /\ t_pc = "nomore" /\ Runs
    /\ FragEndGame(t_scores)
    /\ UNCHANGED <<question_list, settings, t_scores, count, idle, t_cancel,
                   answers, t_waitMsg, wait_args, r_pc, revealed, stopped_at>>

T_TableSent ==
    /\ UNCHANGED outsideTrivia
    /\ t_pc = "table" /\ Runs
    /\ FragPay
    /\ UNCHANGED <<question_list, settings, t_scores, count, idle, t_cancel,
                   answers, t_waitMsg, wait_args, r_pc, revealed, stopped_at>>

\* the deposit is made: bank.get_currency_name, then the congratulation
T_Deposited ==
    /\ UNCHANGED outsideTrivia
    /\ t_pc = "deposit" /\ Runs
    /\ t_pc' = "currency"
    /\ UNCHANGED <<question_list, settings, t_scores, count, idle, t_cancel,
                   qidx, waited, answers, t_waitMsg, wait_args, r_pc,
                   revealed, t_sent, trivEnd, deposits, stopped_at>>

T_Congratulate ==
    /\ UNCHANGED outsideTrivia
    /\ t_pc = "currency" /\ Runs
    /\ t_pc' = "congrats"
    /\ t_sent' = TSend("congrats")
    /\ UNCHANGED <<question_list, settings, t_scores, count, idle, t_cancel,
                   qidx, waited, answers, t_waitMsg, wait_args, r_pc,
                   revealed, trivEnd, deposits, stopped_at>>

T_CongratsSent ==
    /\ UNCHANGED outsideTrivia
    /\ t_pc = "congrats" /\ Runs
    /\ FragStop
    /\ UNCHANGED <<question_list, settings, t_scores, count, idle, t_cancel,
                   answers, t_waitMsg, wait_args, r_pc, revealed, stopped_at>>

\* ---- the reveal task ----

\* the sleep is over: one more position is shown and the text is sent
R_Wake ==
    /\ UNCHANGED outsideTrivia
    /\ r_pc = "sleep"
    /\ revealed' = revealed + 1
    /\ t_sent' = TSend("letters")
    /\ r_pc' = "send"
    /\ UNCHANGED <<question_list, settings, t_scores, count, idle, t_pc,
                   t_cancel, qidx, waited, answers, t_waitMsg, wait_args,
                   trivEnd, deposits, stopped_at>>

R_Sent ==
    /\ UNCHANGED outsideTrivia
    /\ r_pc = "send"
    /\ r_pc' = IF revealed = HiddenCount(answers) THEN "done" ELSE "sleep"
    /\ UNCHANGED <<question_list, settings, t_scores, count, idle, t_pc,
                   t_cancel, qidx, waited, answers, t_waitMsg, wait_args,
                   revealed, t_sent, trivEnd, deposits, stopped_at>>

\* ---- force_stop ----

Suspended ==
    t_pc \in {"created", "startup", "typing", "ask", "waiting", "guys", "fail",
              "gotit", "nomore", "table", "deposit", "currency", "congrats"}

\* force_stop(): self._task.cancel()
ForceStop ==
    /\ UNCHANGED outsideTrivia
    /\ Suspended
    /\ ~t_cancel
    /\ t_cancel' = TRUE
    /\ stopped_at' = t_pc
    /\ UNCHANGED <<question_list, settings, t_scores, count, idle, t_pc, qidx,
                   waited, answers, t_waitMsg, wait_args, r_pc, revealed,
                   t_sent, trivEnd, deposits>>

\* the next cycle of the event loop throws CancelledError into run(); inside
\* wait_for_answer the finally block cancels the reveal task
T_Cancelled ==
    /\ UNCHANGED outsideTrivia
    /\ t_cancel
    /\ Suspended
    /\ t_pc' = "cancelled"
    /\ t_cancel' = FALSE
    /\ r_pc' = IF t_pc \in {"waiting", "guys", "fail", "gotit"}
               THEN RevealCancelled ELSE r_pc
    /\ UNCHANGED <<question_list, settings, t_scores, count, idle, qidx,
                   waited, answers, t_waitMsg, wait_args, revealed, t_sent,
                   trivEnd, deposits, stopped_at>>

\* asyncio.wait_for (Python 3.9 to 3.11) returns the listener's result when
\* the CancelledError finds the listener done: the cancellation is lost and
\* wait_for_answer goes on in its else branch
T_CancelSwallowed ==
    /\ UNCHANGED outsideTrivia
    /\ t_cancel
    /\ t_pc = "waiting"
    /\ t_waitMsg # << >>
    /\ t_cancel' = FALSE
    /\ t_scores' = TBump(t_scores, t_waitMsg[1].author)
    /\ t_sent' = TSend("gotit")
    /\ t_pc' = "gotit"
    /\ UNCHANGED <<question_list, settings, count, idle, qidx, waited,
                   answers, t_waitMsg, wait_args, r_pc, revealed, trivEnd,
                   deposits, stopped_at>>

NextTrivia ==
    \/ T_Start
    \/ T_FirstQuestion
    \/ Tick
    \/ T_Ask
    \/ T_EnterWait
    \/ \E m \in TrivMessages : T_Message(m)
    \/ T_Matched
    \/ T_Timeout
    \/ T_GuysSent
    \/ T_ReplySent
    \/ T_NoMoreSent
    \/ T_TableSent
    \/ T_Deposited
    \/ T_Congratulate
    \/ T_CongratsSent
    \/ R_Wake
    \/ R_Sent
    \/ ForceStop
    \/ T_Cancelled
    \/ T_CancelSwallowed

-----------------------------------------------------------------------------
(* PlaySet: the registry of the cog. A session is seen from the cog as its *)
(* channel, whether its scores hold an entry, and where its task is:       *)
(*   running    suspended inside the loop of run()                         *)
(*   table      await ctx.send(table) of its own end_game                  *)
(*   done       run() returned;  cancelled: the task was cancelled         *)

NoSession == 0

\* the lookup with the channels compared by != instead of ==
GetSessionOfOtherChannel(reg, ss, channel) ==
    IF \E k \in 1..Len(reg) : ss[reg[k]].channel # channel
    THEN reg[Least({k \in 1..Len(reg) : ss[reg[k]].channel # channel})]
    ELSE NoSession

\* next(session for session in set_sessions if its channel == channel, None)
_get_set_session(reg, ss, channel) ==
    IF \E k \in 1..Len(reg) : ss[reg[k]].channel = channel
    THEN reg[Least({k \in 1..Len(reg) : ss[reg[k]].channel = channel})]
    ELSE NoSession

CSend(kind, channel) == <<kind, channel, 1 - c_sent[3]>>

\* list.remove(x): without the first x
RECURSIVE Without(_, _)
Without(s, x) ==
    IF s = << >> THEN << >>
    ELSE IF Head(s) = x THEN Tail(s)
    ELSE <<Head(s)>> \o Without(Tail(s), x)

\* Task.cancel(): a task that has not finished is cancelled
Cancel(state) == IF state \in {"running", "table"} THEN "cancelled" ELSE state

InitCog ==
    /\ set_sessions = << >>
    /\ sess = << >>
    /\ stops = << >>
    /\ stopCount = 0
    /\ events = << >>
    /\ handlers = << >>
    /\ conf = [wins |-> 0, games |-> 0, total_score |-> 0]
    /\ c_sent = <<None, Here, 0>>

\* the playset command
playset(channel) ==
    /\ UNCHANGED outsideCog
    /\ IF _get_set_session(set_sessions, sess, channel) # NoSession
       THEN /\ c_sent' = CSend("already", channel)
            /\ UNCHANGED <<set_sessions, sess>>
       ELSE /\ Len(sess) < MaxSessions
            /\ sess' = Append(sess, [channel |-> channel, state |-> "running",
                                     scored |-> FALSE])
            /\ set_sessions' = Append(set_sessions, Len(sess) + 1)
            /\ UNCHANGED c_sent
    /\ UNCHANGED <<stops, stopCount, events, handlers, conf>>

\* a call, right or wrong, gives the caller an entry in the scores
S_Score(i) ==
    /\ UNCHANGED outsideCog
    /\ sess[i].state = "running"
    /\ ~sess[i].scored
    /\ sess' = [sess EXCEPT ![i].scored = TRUE]
    /\ UNCHANGED <<set_sessions, stops, stopCount, events, handlers, conf,
                   c_sent>>

\* the board has no set left: run() calls end_game
S_End(i) ==
    /\ UNCHANGED outsideCog
    /\ sess[i].state = "running"
    /\ IF sess[i].scored
       THEN /\ sess' = [sess EXCEPT ![i].state = "table"]
            /\ c_sent' = CSend("table", sess[i].channel)
            /\ UNCHANGED events
       ELSE /\ sess' = [sess EXCEPT ![i].state = "done"]
            /\ events' = Append(events, i)
            /\ UNCHANGED c_sent
    /\ UNCHANGED <<set_sessions, stops, stopCount, handlers, conf>>

\* the table of the session's own end_game is sent: stop()
S_TableSent(i) ==
    /\ UNCHANGED outsideCog
    /\ sess[i].state = "table"
    /\ sess' = [sess EXCEPT ![i].state = "done"]
    /\ events' = Append(events, i)
    /\ UNCHANGED <<set_sessions, stops, stopCount, handlers, conf, c_sent>>

\* set_stop after end_game's table: stop(), force_stop(), "Set stopped."
StopTail(i) ==
    /\ events' = Append(events, i)
    /\ sess' = [sess EXCEPT ![i].state = Cancel(sess[i].state)]
    /\ c_sent' = CSend("stopped", sess[i].channel)

\* the playset stop command up to its first await
set_stop(channel) ==
    /\ UNCHANGED outsideCog
    /\ LET i == _get_set_session(set_sessions, sess, channel)
       IN  IF i = NoSession
           THEN /\ c_sent' = CSend("nosession", channel)
                /\ UNCHANGED <<sess, stops, stopCount, events>>
           ELSE /\ stopCount < MaxStops
                /\ stopCount' = stopCount + 1
                /\ IF sess[i].scored
                   THEN /\ c_sent' = CSend("table", channel)
                        /\ stops' = Append(stops, i)
                        /\ UNCHANGED <<sess, events>>
                   ELSE /\ StopTail(i)
                        /\ UNCHANGED stops
    /\ UNCHANGED <<set_sessions, handlers, conf>>

\* the table a stop command asked for is sent: the command goes on
StopTableSent(k) ==
    /\ UNCHANGED outsideCog
    /\ StopTail(stops[k])
    /\ stops' = SubSeq(stops, 1, k - 1) \o SubSeq(stops, k + 1, Len(stops))
    /\ UNCHANGED <<set_sessions, stopCount, handlers, conf>>

\* on_set_end up to its first await
on_set_end ==
    /\ UNCHANGED outsideCog
    /\ events # << >>
    /\ LET i == Head(events)
       IN  /\ set_sessions' = Without(set_sessions, i)
           /\ handlers' = IF sess[i].scored
                          THEN Append(handlers, [sid |-> i, at |-> "read",
                                                 stats |-> conf])
                          ELSE handlers
    /\ events' = Tail(events)
    /\ UNCHANGED <<sess, stops, stopCount, conf, c_sent>>

\* update_leaderboard: stats = await conf.member(member).all(); the one
\* member's score is the highest of the session
LbRead(k) ==
    /\ UNCHANGED outsideCog
    /\ handlers[k].at = "read"
    /\ handlers' = [handlers EXCEPT ![k] =
                      [sid |-> @.sid, at |-> "write",
                       stats |-> [wins |-> conf.wins + 1,
                                  games |-> conf.games + 1,
                                  total_score |-> conf.total_score + 1]]]
    /\ UNCHANGED <<set_sessions, sess, stops, stopCount, events, conf, c_sent>>

\* await conf.member(member).set(stats)
LbWrite(k) ==
    /\ UNCHANGED outsideCog
    /\ handlers[k].at = "write"
    /\ conf' = handlers[k].stats
    /\ handlers' = SubSeq(handlers, 1, k - 1)
                     \o SubSeq(handlers, k + 1, Len(handlers))
    /\ UNCHANGED <<set_sessions, sess, stops, stopCount, events, c_sent>>

NextCog ==
    \/ \E channel \in Channels : playset(channel)
    \/ \E i \in 1..Len(sess) : S_Score(i)
    \/ \E i \in 1..Len(sess) : S_End(i)
    \/ \E i \in 1..Len(sess) : S_TableSent(i)
    \/ \E channel \in Channels : set_stop(channel)
    \/ \E k \in 1..Len(stops) : StopTableSent(k)
    \/ on_set_end
    \/ \E k \in 1..Len(handlers) : LbRead(k)
    \/ \E k \in 1..Len(handlers) : LbWrite(k)

\* ---- the machines at rest ----

SetOff ==
    /\ board = << >> /\ deck = << >> /\ boardW = 0 /\ scores = << >>
    /\ foundSet = FALSE /\ wrongAnswers = << >> /\ game_running = FALSE
    /\ pc = "off" /\ hpc = "idle" /\ waitMsg = << >> /\ cards = << >>
    /\ sent = <<None, 0>> /\ setEnd = 0 /\ calls = << >> /\ removed = << >>

TriviaOff ==
    /\ question_list = << >> /\ settings = << >> /\ t_scores = << >>
    /\ count = 0 /\ idle = 0 /\ t_pc = "off" /\ t_cancel = FALSE /\ qidx = 0
    /\ waited = 0 /\ answers = << >> /\ t_waitMsg = << >>
    /\ wait_args = << >> /\ r_pc = "none" /\ revealed = 0
    /\ t_sent = <<None, 0>> /\ trivEnd = 0 /\ deposits = << >>
    /\ stopped_at = None

\* the cog with no command given
CogOff == InitCog

\* _is_set not called
PureOff == is_set_arg = << >> /\ is_set_ret = None

\* _is_set(cardList) on three cards
IsSetCall ==
    /\ UNCHANGED outsidePure
    /\ is_set_arg = << >>
    /\ \E a \in Cards, b \in Cards, c \in Cards :
          /\ is_set_arg' = <<a, b, c>>
          /\ is_set_ret' = _is_set(<<a, b, c>>)

NextPure == IsSetCall

\* ---- the other functions, called by themselves ----

\* no call made
CallsOff == fn = None /\ fn_args = << >> /\ fn_ret = << >>

\* the score mappings pay_winner is called with: up to MaxContestants
\* different keys in every insertion order, each with 1 to MaxPayScore points
KeyOrders(n) ==
    { who \in [1..n -> PayPlayers] :
        \A i, j \in 1..n : who[i] = who[j] => i = j }

\* end_game from its test of the multiplier on, with the scores sc
PayWinnerCall ==
    /\ UNCHANGED outsideCalls
    /\ fn = None
    /\ \E n \in 0..MaxContestants, multiplier \in Multipliers :
          \E who \in KeyOrders(n), pts \in [1..n -> 1..MaxPayScore] :
             LET sc == [i \in 1..n |-> [who |-> who[i], n |-> pts[i]]]
             IN  /\ fn' = "pay_winner"
                 /\ fn_args' = <<sc, multiplier>>
                 /\ fn_ret' = EndGamePayment(sc, multiplier)

\* the raw answers of a question, as the YAML loader leaves them
RawEntries ==
    { Bool(TRUE), Bool(FALSE), Str(TextYes), Str(TextNo),
      Str(<<"R","o","m","e">>), Num(1), Num(10), Str(<<"1">>),
      Dict([delay_factor |-> 2]), Dict([slow_reveal |-> 1]) }

RECURSIVE RawLists(_)
RawLists(n) ==
    IF n = 0 THEN { << >> }
    ELSE LET shorter == RawLists(n - 1)
         IN  shorter \cup
             { Append(raw, e) : raw \in {x \in shorter : Len(x) = n - 1},
                                e \in RawEntries }

ParseAnswersCall ==
    /\ UNCHANGED outsideCalls
    /\ fn = None
    /\ \E raw \in RawLists(MaxRaw) :
          /\ fn' = "_parse_answers"
          /\ fn_args' = <<raw>>
          /\ fn_ret' = _parse_answers(raw)

\* answers of a trivia list: plain words, one that ends in punctuation, one
\* written with two spaces, one with a curly apostrophe
AnswerPool ==
    { <<"R","o","m","e">>, <<"N","o">>, <<"Y","e","s","!">>,
      <<"N","o"," "," ","Y","e","s">>, <<"R","o","m","e","rsquo","s">> }

AnswerLists ==
    { <<a>> : a \in AnswerPool } \cup { <<a, b>> : a, b \in AnswerPool }

\* check_answer(answers) and its predicate on a message of a participant in
\* the session's channel that repeats one of the answers, as written or in
\* lower case
CheckAnswerCall ==
    /\ UNCHANGED outsideCalls
    /\ fn = None
    /\ \E ans \in AnswerLists :
          \E i \in 1..Len(ans), a \in TrivPlayers, lower \in BOOLEAN :
             LET m == Msg(a, IF lower THEN Lower(ans[i]) ELSE ans[i])
             IN  /\ fn' = "check_answer"
                 /\ fn_args' = <<ans, m>>
                 /\ fn_ret' = Pred(ans, m)

\* the shuffles __init__ is called with by itself
CallDecks ==
    { PolyDeck(<<a, b, c>>) :
        a \in {1, 2, 4, 5, 7, 8}, b \in 0..MaxDeckParam, c \in 0..MaxDeckParam }
      \cup {CapDeck}

\* SetSession.__init__ up to the board image
ConstructCall ==
    /\ UNCHANGED outsideCalls
    /\ fn = None
    /\ \E d0 \in CallDecks :
          /\ fn' = "__init__"
          /\ fn_args' = <<d0>>
          /\ fn_ret' = Construct(d0)

\* _card_num_to_vec on two cards
CardNumToVecCall ==
    /\ UNCHANGED outsideCalls
    /\ fn = None
    /\ \E c1 \in Cards, c2 \in Cards :
          /\ fn' = "_card_num_to_vec"
          /\ fn_args' = <<c1, c2>>
          /\ fn_ret' = <<_card_num_to_vec(c1), _card_num_to_vec(c2)>>

\* the placeholder reveal_answer shows for a hidden position (U+00B7)
Hidden == "dot"

\* the loop of reveal_answer: positions.pop(), the position shown, the text
\* sent; err when pop() finds the list empty (IndexError)
RECURSIVE RevealLoop(_, _, _, _)
RevealLoop(current_reveal, full_answer, positions, out) ==
    IF current_reveal = full_answer THEN [sent |-> out, err |-> FALSE]
    ELSE IF positions = << >> THEN [sent |-> out, err |-> TRUE]
    ELSE LET next_reveal == positions[Len(positions)]
             shown == [current_reveal EXCEPT
                          ![next_reveal] = full_answer[next_reveal]]
         IN  RevealLoop(shown, full_answer,
                        SubSeq(positions, 1, Len(positions) - 1),
                        Append(out, shown))

\* what reveal_answer starts from
Masked(full_answer) ==
    [i \in 1..Len(full_answer) |->
        IF IsAlnum(full_answer[i]) THEN Hidden ELSE full_answer[i]]

\* reveal_answer with random.shuffle leaving the positions in the order given
reveal_answer(answer, positions) ==
    RevealLoop(Masked(Upper(answer)), Upper(answer), positions, << >>)

\* the orders random.shuffle can leave the hidden positions in
Shuffled(answer) ==
    LET start == Masked(Upper(answer))
        at == { i \in 1..Len(start) : start[i] = Hidden }
    IN  { order \in [1..Cardinality(at) -> at] :
            \A i, j \in 1..Cardinality(at) : order[i] = order[j] => i = j }

\* the first answers the reveal is called with
RevealPool ==
    { <<"a", "b">>, <<"o", "h", "!">>, <<"a", " ", "b", "c">>, <<"b">>,
      <<"o", "_", "h">>, <<"!", "?">>, <<"A", "b", "c", "h">> }

\* wait_for_answer from its try to the creation of the reveal task (lines
\* 206-210), and the reveal task run to its end
RevealCall ==
    /\ UNCHANGED outsideCalls
    /\ fn = None
    /\ \E answer \in RevealPool, slow \in 0..MaxInterval, half \in 0..MaxInterval :
          LET su == WaitSetup(<<answer>>, slow, half)
          IN  /\ fn' = "reveal_answer"
              /\ \E positions \in Shuffled(answer) :
                    /\ fn_args' = <<answer, slow, half, positions>>
                    /\ fn_ret' =
                          IF su.err \/ ~su.reveal
                          THEN [err |-> su.err, reveal |-> FALSE]
                          ELSE [err |-> FALSE, reveal |-> TRUE,
                                num |-> su.num, den |-> su.den,
                                task |-> reveal_answer(answer, positions)]

NextCalls ==
    \/ CardNumToVecCall
    \/ RevealCall
    \/ ConstructCall
    \/ PayWinnerCall
    \/ ParseAnswersCall
    \/ CheckAnswerCall


\* one machine started, the others at rest
StartSet == InitSet /\ TriviaOff /\ CogOff /\ PureOff /\ CallsOff
StartTrivia == InitTrivia /\ SetOff /\ CogOff /\ PureOff /\ CallsOff
StartCog == InitCog /\ SetOff /\ TriviaOff /\ PureOff /\ CallsOff
StartPure == PureOff /\ SetOff /\ TriviaOff /\ CogOff /\ CallsOff
StartCalls == CallsOff /\ SetOff /\ TriviaOff /\ CogOff /\ PureOff

SpecSet == StartSet /\ [][NextSet]_vars

SpecTrivia == StartTrivia /\ [][NextTrivia]_vars

SpecCog == StartCog /\ [][NextCog]_vars

SpecPure == StartPure /\ [][NextPure]_vars

SpecCalls == StartCalls /\ [][NextCalls]_vars

\* the two sessions, for what is said of both
SpecSessions ==
    /\ (StartSet \/ StartTrivia)
    /\ [][NextSet \/ NextTrivia]_vars

-----------------------------------------------------------------------------
(* Properties of the Set board (SpecSet).                                  *)

\* C1: after the construction of a SetSession and after every _update_board,
\* a deck of at least 3 cards means that the board contains a valid triple;
\* a board without a valid triple exists only with the deck empty.
C1_BoardHasSet ==
    pc # "off" =>
        /\ Len(deck) >= 3 => _board_contains_set(board)
        /\ ~_board_contains_set(board) => Len(deck) = 0

\* _update_board has grown the board in its repair loop and cards remain
C1_Witness ==
    /\ pc = "sleep"
    /\ cards # << >>
    /\ boardW > InitBoardW
    /\ Len(deck) >= 3
    /\ _board_contains_set(board)

\* per attribute, all three values equal or all three different
SameOrDistinct(x, y, z) == (x = y /\ y = z) \/ (x # y /\ y # z /\ x # z)

AttributeOf(card, i) == (card \div (3 ^ (4 - i))) % 3

ValidTriple(c1, c2, c3) ==
    \A i \in 1..4 :
        SameOrDistinct(AttributeOf(c1, i), AttributeOf(c2, i), AttributeOf(c3, i))

PositionLetters ==
    {"A","B","C","D","E","F","G","H","I","J","K","L","M","N","O","P","R","S",
     "T","U","V"}

\* the column a position letter stands for: A-G, H-N and O-V (without Q) are
\* the three rows
ColumnOf(l) ==
    LET row1 == <<"A","B","C","D","E","F","G">>
        row2 == <<"H","I","J","K","L","M","N">>
        row3 == <<"O","P","R","S","T","U","V">>
    IN  CHOOSE c \in 0..6 : l \in {row1[c+1], row2[c+1], row3[c+1]}

RowOf(l) ==
    IF l \in {"A","B","C","D","E","F","G"} THEN 0
    ELSE IF l \in {"H","I","J","K","L","M","N"} THEN 1 ELSE 2

CardAt(l) == board[3 * ColumnOf(l) + RowOf(l) + 1]

\* the guess of C8, said of the message alone
Accepted(m) ==
    LET text == Upper(m.content)
    IN  /\ m.channel = Here
        /\ m.author # Me
        /\ Len(text) = 3
        /\ text[1] # text[2] /\ text[1] # text[3] /\ text[2] # text[3]
        /\ \A i \in 1..3 : text[i] \in PositionLetters /\ ColumnOf(text[i]) < boardW
        /\ ValidTriple(CardAt(text[1]), CardAt(text[2]), CardAt(text[3]))

\* C8: a guess is accepted iff the message is in the session's channel, is
\* not from the bot, and its upper-cased text is exactly 3 pairwise distinct
\* position letters of columns below the board width whose cards form a valid
\* triple; every other message is rejected.
C8_AcceptedIff ==
    pc \in {"waiting", "reply"} =>
        /\ \A m \in Messages(board) : check_set(m, board, boardW) <=> Accepted(m)
        /\ waitMsg # << >> => Accepted(waitMsg[1])
        /\ \A k \in 1..Len(wrongAnswers) : ~Accepted(wrongAnswers[k])

\* a malformed guess: the upper-cased text is not exactly three pairwise
\* distinct position letters of columns of the board
Malformed(m) ==
    LET text == Upper(m.content)
    IN  ~ /\ Len(text) = 3
          /\ text[1] # text[2] /\ text[1] # text[3] /\ text[2] # text[3]
          /\ \A i \in 1..3 :
                text[i] \in PositionLetters /\ ColumnOf(text[i]) < boardW

\* C15: a malformed guess is rejected before any card is looked at and leaves
\* no trace: it is never queued for a penalty and never taken for a set, so
\* no score changes, no message is sent and the board stays.
C15_MalformedIgnored ==
    pc = "waiting" =>
        /\ waitMsg = << >> =>
              \A m \in Messages(board) :
                  Malformed(m) => ~Wellformed(m, boardW) /\ ~check_set(m, board, boardW)
        /\ \A k \in 1..Len(wrongAnswers) : ~Malformed(wrongAnswers[k])
        /\ waitMsg # << >> => ~Malformed(waitMsg[1])

\* the listener of a board of 5 columns, on which a text of column 7 is
\* malformed, after it queued a wrong call that names column 5
C15_Witness ==
    /\ pc = "waiting"
    /\ waitMsg = << >>
    /\ boardW = 5
    /\ wrongAnswers # << >>
    /\ ~Malformed(wrongAnswers[1])
    /\ wrongAnswers[1].content = <<"E","L","T">>
    /\ \E m \in Messages(board) : m.content = <<"G","N","V">> /\ Malformed(m)

\* a call is accepted while a wrong call waits for its penalty
C8_Witness ==
    /\ pc = "waiting"
    /\ waitMsg # << >>
    /\ foundSet
    /\ wrongAnswers # << >>

\* C12: run() leaves its loop exactly when the board that _update_board left
\* holds no valid triple, and then the deck is empty; the end event follows
\* only then, once; every board sent to the channel holds a valid triple.
C12_Step ==
    pc # "off" =>
        /\ (pc = "reply" /\ pc' # pc) =>
              /\ pc' \in {"sleep", "table", "done"}
              /\ pc' = "sleep" <=> _board_contains_set(board')
              /\ pc' # "sleep" => Len(deck') = 0 /\ ~game_running'
        /\ (game_running /\ ~game_running') => pc = "reply"
        /\ setEnd' # setEnd =>
              /\ setEnd = 0 /\ setEnd' = 1
              /\ ~_board_contains_set(board')
              /\ Len(deck') = 0
              /\ ~game_running'
        /\ (sent' # sent /\ sent'[1] = "board") => _board_contains_set(board)

C12_EndsWithoutSet == [][C12_Step]_vars

\* a game played to its end: no set on the board, the deck used up
C12_Witness ==
    /\ pc = "done"
    /\ setEnd = 1
    /\ ~_board_contains_set(board)
    /\ Len(deck) = 0
    /\ Len(board) > 0

\* wrong calls of a that wait in the queue for their penalty (the head of the
\* queue has its penalty once the announcement is under way)
PendingWrong(a) ==
    Cardinality({k \in 1..Len(wrongAnswers) :
                    wrongAnswers[k].author = a /\ ~(k = 1 /\ hpc = "send")})

\* the accepted call of a that waits for the gather to complete
PendingRight(a) ==
    IF pc = "waiting" /\ waitMsg # << >> /\ waitMsg[1].author = a THEN 1 ELSE 0

\* C16: every author's score is the number of accepted calls minus the
\* number of well-formed wrong calls the listener received from the author,
\* up to the calls still waiting in the current round, and once the wait is
\* over none is waiting: each wrong call costs one point exactly once and
\* each accepted call gives exactly one.
C16_OnePointPerCall ==
    pc # "off" =>
        /\ \A a \in Players :
              ScoreOf(scores, a) =
                  (calls[a].right - PendingRight(a))
                    - (calls[a].wrong - PendingWrong(a))
        /\ pc # "waiting" =>
              \A a \in Players : PendingWrong(a) = 0 /\ PendingRight(a) = 0
        /\ DOMAIN scores \subseteq Players

\* two wrong calls of different authors in the queue while the penalty of
\* the first is announced
C16_Witness ==
    /\ pc = "waiting"
    /\ hpc = "send"
    /\ Len(wrongAnswers) = 2
    /\ wrongAnswers[1].author # wrongAnswers[2].author
    /\ DOMAIN scores = {wrongAnswers[1].author}

-----------------------------------------------------------------------------
(* Properties of the trivia session (SpecTrivia).                          *)

CapReached == \E i \in 1..Len(t_scores) : t_scores[i].n >= settings.max_score

QuestionSent == t_sent' # t_sent /\ t_sent'[1] = "question"

\* C3: once a score has reached max_score no further question is presented,
\* and the step after the reply of the scoring event is end_game (its score
\* table), unless the task is cancelled there.
C3_Step ==
    (t_pc # "off" /\ CapReached) =>
        /\ qidx' = qidx
        /\ count' = count
        /\ ~QuestionSent
        /\ (t_pc \in {"fail", "gotit"} /\ t_pc' # t_pc)
              => t_pc' \in {"table", "cancelled"}

C3_CapEndsRound == [][C3_Step]_vars

\* the cap is reached with questions left and end_game shows the table
C3_Witness ==
    /\ t_pc = "table"
    /\ CapReached
    /\ qidx < Len(question_list)

OthersKeep == \A a \in TrivPlayers : TScoreOf(t_scores', a) = TScoreOf(t_scores, a)

\* C10: at a timeout of the wait without a match, an inactivity of at least
\* the timeout ends the round with the "Guys...?" message, the end event, no
\* point for the bot and no further question; otherwise exactly one
\* fail/reveal message is sent, the bot gets exactly one point iff bot_plays,
\* and the round goes on: the next question unless the cap is reached or the
\* questions are used up.  (A timeout that raises instead of answering is
\* the subject of C29.)
C10_Step ==
    /\ (t_pc = "waiting" /\ t_pc' \in {"guys", "fail"}) =>
          /\ OthersKeep
          /\ t_sent' # t_sent
          /\ IF idle >= settings.timeout
             THEN /\ t_pc' = "guys"
                  /\ t_sent'[1] = "guys"
                  /\ TScoreOf(t_scores', Me) = TScoreOf(t_scores, Me)
             ELSE /\ t_pc' = "fail"
                  /\ t_sent'[1] = IF settings.reveal_answer THEN "reveal"
                                  ELSE "fail"
                  /\ TScoreOf(t_scores', Me) = TScoreOf(t_scores, Me)
                        + (IF settings.bot_plays THEN 1 ELSE 0)
    /\ (t_pc = "guys" /\ t_pc' # t_pc) =>
          \/ t_pc' = "cancelled"
          \/ /\ t_pc' = "done"
             /\ trivEnd' = trivEnd + 1
             /\ UNCHANGED <<t_scores, t_sent, qidx, count>>
    /\ (t_pc = "fail" /\ t_pc' = t_pc /\ t_sent' # t_sent) =>
          t_sent'[1] = "letters"
    /\ (t_pc = "fail" /\ t_pc' # t_pc) =>
          \/ t_pc' = "cancelled"
          \/ /\ UNCHANGED <<t_scores, trivEnd>>
             /\ IF CapReached THEN t_pc' = "table"
                ELSE IF qidx < Len(question_list)
                THEN t_pc' = "typing" /\ qidx' = qidx + 1
                ELSE t_pc' = "nomore"
    /\ (t_pc = "done") => UNCHANGED <<t_pc, qidx, count, t_sent, t_scores>>

C4_NoReplyAfterStop ==
    [][(stopped_at = "waiting" /\ t_sent' # t_sent)
          => t_sent'[1] \notin {"fail", "reveal"}]_vars

\* C6: after force_stop() neither the task of run() nor the reveal task
\* sends a message or changes a score.
C6_QuietAfterStop ==
    [][stopped_at # None => UNCHANGED <<t_sent, t_scores>>]_vars

\* the for loop of run() is used up
Exhausted == qidx = Len(question_list)

\* C11: in a session that is not forcibly stopped the end event is dispatched
\* at most once, by the step that ends run(), and only after the score cap
\* was reached, the questions were used up, or the inactivity reached the
\* timeout; after it no question is presented, and run() does not return
\* without it.
C11_Step ==
    (t_pc # "off" /\ stopped_at' = None) =>
        /\ trivEnd' # trivEnd =>
              /\ trivEnd = 0 /\ trivEnd' = 1
              /\ t_pc' = "done"
              /\ \/ t_pc = "guys" /\ idle >= settings.timeout
                 \/ t_pc \in {"fail", "gotit", "nomore", "table", "congrats"}
                      /\ (CapReached \/ Exhausted)
        /\ trivEnd >= 1 =>
              /\ ~QuestionSent
              /\ UNCHANGED <<qidx, count, t_pc, trivEnd>>
        /\ t_pc' = "done" => trivEnd' = 1

InWait == t_pc \in {"waiting", "guys", "fail", "gotit"}

\* the reveal task is alive
RevealAlive == r_pc \in {"sleep", "send"}

\* the reveal task sends a message
RevealSends == r_pc = "sleep" /\ r_pc' = "send"

C23_Step ==
    /\ RevealSends => (InWait /\ UNCHANGED <<t_pc, qidx, count>>)
    /\ (InWait /\ ~InWait') => ~RevealAlive'

\* C23: the reveal task of a question does not outlive the question: when
\* wait_for_answer is left, by a match, a timeout, the inactivity end or the
\* cancellation of the task of run(), the reveal task is cancelled (or has
\* ended), so that it sends no message once the next question is presented
\* or the session has ended.
C23_RevealWithinQuestion ==
    [](~InWait => ~RevealAlive) /\ [][C23_Step]_vars

\* the reveal task has sent a letter, was cancelled with letters still hidden
\* when the wait was left, and the next question is on its way
C23_Witness ==
    /\ r_pc = "cancelled"
    /\ revealed > 0
    /\ revealed < HiddenCount(answers)
    /\ t_pc = "typing"
    /\ stopped_at = None

\* the raw answers of the question being asked, and those before it
RawOf(k) == question_list[k][2]

\* some dict among the raw answers of question k gives the key
Overrides(k, key) ==
    \E i \in 1..Len(RawOf(k)) :
        RawOf(k)[i].t = "dict" /\ key \in DOMAIN RawOf(k)[i].v

\* the step of run() that asks question qidx
AskStep == t_pc = "typing" /\ t_pc' = "ask"

C25_Step ==
    AskStep =>
        /\ ~Overrides(qidx, "delay_factor") =>
              wait_args'.delay = settings.delay
        /\ ~Overrides(qidx, "slow_reveal") =>
              wait_args'.slow_reveal = settings.slow_reveal
        /\ ~Overrides(qidx, "half_reveal") =>
              wait_args'.half_reveal = settings.half_reveal
        /\ LET parsed == _parse_answers(RawOf(qidx))
               texts == SelectSeq(parsed, LAMBDA e : e.t # "dict")
           IN  /\ Len(answers') = Len(texts)
               /\ \A i \in 1..Len(texts) : answers'[i] = texts[i].v

\* C25: the overrides a question gives (delay_factor, slow_reveal,
\* half_reveal) hold for that question only: a question that does not give
\* one runs with the delay, slow_reveal and half_reveal of the session,
\* whatever the questions before it gave, and the dicts are not among the
\* answers that are accepted.
C25_OverridesOneQuestion == [][C25_Step]_vars

\* a question without overrides is asked after one that gave all three, in a
\* session whose own values differ from them
C25_Witness ==
    /\ t_pc = "ask"
    /\ qidx > 1
    /\ Overrides(qidx - 1, "delay_factor")
    /\ Overrides(qidx - 1, "slow_reveal")
    /\ Overrides(qidx - 1, "half_reveal")
    /\ \A key \in {"delay_factor", "slow_reveal", "half_reveal"} :
          ~Overrides(qidx, key)
    /\ settings.slow_reveal = 0
    /\ wait_args = [delay |-> settings.delay, slow_reveal |-> 0,
                    half_reveal |-> 0]

\* the sum of the scores
RECURSIVE Total(_)
Total(sc) == IF sc = << >> THEN 0 ELSE Head(sc).n + Total(Tail(sc))

\* the question that count counts last has not given its point yet
Pending == IF t_pc \in {"ask", "waiting"} THEN 1 ELSE 0

C27_Accounts ==
    /\ \A i \in 1..Len(t_scores) : t_scores[i].n >= 1
    /\ \A i, j \in 1..Len(t_scores) :
          t_scores[i].who = t_scores[j].who => i = j
    /\ Total(t_scores) <= count - Pending
    /\ count <= Len(question_list)
    /\ count \in {qidx - 1, qidx}
    /\ InWait \/ t_pc = "ask" => count = qidx

C27_Step ==
    /\ \A a \in TrivPlayers \cup {Me} : TScoreOf(t_scores', a) >= TScoreOf(t_scores, a)
    /\ count' \in {count, count + 1}
    /\ count' = count + 1 => (AskStep /\ UNCHANGED <<qidx, t_scores>>)
    /\ t_scores' # t_scores =>
          /\ t_pc = "waiting"
          /\ Total(t_scores') = Total(t_scores) + 1
          /\ UNCHANGED <<count, qidx>>
          /\ \/ /\ t_waitMsg # << >>
                /\ t_pc' = "gotit"
                /\ TScoreOf(t_scores', t_waitMsg[1].author)
                     = TScoreOf(t_scores, t_waitMsg[1].author) + 1
             \/ /\ t_waitMsg = << >>
                /\ t_pc' = "fail"
                /\ settings.bot_plays
                /\ idle < settings.timeout
                /\ TScoreOf(t_scores', Me) = TScoreOf(t_scores, Me) + 1

\* C27: every question presented gives at most one point, to the first
\* responder who matches or, at a timeout that is not the inactivity end and
\* with bot_plays, to the house; no score decreases, every key of the score
\* mapping has at least 1 point, the sum of the scores is at most count, and
\* count is the number of questions presented, each counted once and no
\* more than the question list holds.
C27_ScoreAccounting == [](C27_Accounts) /\ [][C27_Step]_vars

\* every question of the list has given its point, to players and to the house
C27_Witness ==
    /\ t_pc = "done"
    /\ count = Len(question_list)
    /\ Total(t_scores) = count
    /\ TScoreOf(t_scores, Me) >= 1
    /\ \E a \in TrivPlayers : TScoreOf(t_scores, a) >= 1

\* a step in which bank.deposit_credits is called
DepositStep == deposits' # deposits

C28_Step ==
    DepositStep =>
        /\ deposits = << >>
        /\ TopEntry(t_scores).who # Me
        /\ t_sent[1] # "guys"
        /\ stopped_at = None

\* C28: a session pays at most once and never the house: no deposit is made
\* when the house is the top scorer, when the session ends by inactivity or
\* when it has been forcibly stopped.
C28_PaysOnceNotHouse ==
    /\ [](/\ Len(deposits) <= 1
          /\ \A k \in 1..Len(deposits) : deposits[k][1] # Me
          /\ (t_pc = "done" /\ t_sent[1] = "guys") => deposits = << >>)
    /\ [][C28_Step]_vars

\* C29: for every question, whatever its answers, wait_for_answer raises no
\* error other than the cancellation: run() is never ended by an exception
\* of its own, it goes on to the next question or to an end event.
C29_NeverDiesSilently == t_pc # "crashed"

-----------------------------------------------------------------------------
(* Properties of the registry of the cog (SpecCog).                        *)

Registered(channel) ==
    {k \in 1..Len(set_sessions) : sess[set_sessions[k]].channel = channel}

Running(channel) ==
    {i \in 1..Len(sess) :
        sess[i].channel = channel /\ sess[i].state \in {"running", "table"}}

C2_Inv ==
    \A channel \in Channels :
        /\ Cardinality(Registered(channel)) <= 1
        /\ Cardinality(Running(channel)) <= 1

C2_StartStep ==
    /\ Len(sess') > Len(sess) =>
          /\ Registered(sess'[Len(sess')].channel) = {}
          /\ set_sessions' = Append(set_sessions, Len(sess'))
    /\ (c_sent' # c_sent /\ c_sent'[1] = "already") =>
          /\ Registered(c_sent'[2]) # {}
          /\ UNCHANGED <<set_sessions, sess>>

\* C2: no channel ever has two registered or two running sessions; the start
\* command registers a session only when the registry holds none for the
\* channel, and otherwise answers "already ongoing" and changes nothing.
C2_OnePerChannel == []C2_Inv /\ [][C2_StartStep]_vars

\* a second session of a channel is registered after the first ended, and a
\* further start command is refused
C2_Witness ==
    /\ Len(sess) = 2
    /\ sess[1].channel = sess[2].channel
    /\ set_sessions = <<2>>
    /\ c_sent[1] = "already"

\* C5: the step of the stop command that finds a session sends no score
\* table and leaves the session's task cancelled.
C5_StopSendsNoTable ==
    [][stopCount' # stopCount =>
          /\ c_sent'[1] # "table"
          /\ LET i == _get_set_session(set_sessions, sess, c_sent'[2])
             IN  sess'[i].state \notin {"running", "table"}]_vars

\* C26: the end of a Set session is handled once: whatever the order of the
\* stop commands and the session's own end, no session has more than one
\* set_end event dispatched, and the member's stats are updated at most once
\* for each session.
C26_EndHandledOnce ==
    /\ \A j, k \in 1..Len(events) : events[j] = events[k] => j = k
    /\ \A j, k \in 1..Len(handlers) : handlers[j].sid = handlers[k].sid => j = k
    /\ conf.games <= Len(sess)

-----------------------------------------------------------------------------
(* Properties of the matchers (SpecSessions).                              *)

TriviaMatcherStep ==
    t_pc = "waiting" /\ \E m \in TrivMessages : T_Message(m)

SetMatcherStep(msgs) ==
    pc = "waiting" /\ waitMsg = << >> /\ \E m \in msgs : OnMessage(m)

C7_SetFrame ==
    LET msgs == Messages(board)
    IN  SetMatcherStep(msgs) =>
          /\ UNCHANGED <<board, deck, boardW, scores, game_running, sent,
                         setEnd>>
          /\ \/ UNCHANGED <<wrongAnswers, foundSet>>
             \/ /\ \E m \in msgs :
                      ~Accepted(m) /\ wrongAnswers' = Append(wrongAnswers, m)
                /\ UNCHANGED foundSet
             \/ /\ foundSet' /\ waitMsg' # << >> /\ Accepted(waitMsg'[1])
                /\ UNCHANGED wrongAnswers

C7_TriviaFrame ==
    TriviaMatcherStep =>
        /\ UNCHANGED <<question_list, settings, t_scores, count, t_sent,
                       trivEnd, deposits>>
        /\ idle' = idle \/ idle' = 0

SetScoresPlus(a, d) ==
    /\ DOMAIN scores' = DOMAIN scores \cup {a}
    /\ \A x \in DOMAIN scores' :
          scores'[x] = ScoreOf(scores, x) + (IF x = a THEN d ELSE 0)

C14_SetStep ==
    pc # "off" =>
        \* a board is sent with no penalty waiting and the handler at rest
        /\ (sent' # sent /\ sent'[1] = "board") =>
              wrongAnswers = << >> /\ hpc = "idle" /\ pc = "sleep"
        \* the wait ends with the queue served, and gives the finder's point
        /\ (pc = "waiting" /\ pc' # pc) =>
              /\ wrongAnswers = << >>
              /\ pc' = "reply"
              /\ waitMsg # << >>
              /\ SetScoresPlus(waitMsg[1].author, 1)
        \* a call leaves the queue only after its penalty was announced, and
        \* the announcement starts with the penalty
        /\ wrongAnswers' # wrongAnswers =>
              \/ /\ wrongAnswers # << >>
                 /\ wrongAnswers' = Tail(wrongAnswers)
                 /\ hpc = "send"
              \/ \E m \in Messages(board) : wrongAnswers' = Append(wrongAnswers, m)
        /\ (sent' # sent /\ sent'[1] = "notset") =>
              /\ wrongAnswers' # << >>
              /\ SetScoresPlus(wrongAnswers'[1].author, -1)
        \* between the wait and the next board no score changes
        /\ pc \in {"reply", "sleep", "present"} => UNCHANGED scores

C14_TriviaStep ==
    t_pc # "off" =>
        /\ QuestionSent => t_pc = "typing"
        \* the point is given in the step that leaves the wait
        /\ (t_pc = "waiting" /\ t_pc' = "gotit") =>
              /\ t_waitMsg # << >>
              /\ \A a \in TrivPlayers \cup {Me} :
                    TScoreOf(t_scores', a) = TScoreOf(t_scores, a)
                        + (IF a = t_waitMsg[1].author THEN 1 ELSE 0)
        /\ (t_pc = "waiting" /\ t_pc' = "fail") =>
              \A a \in TrivPlayers \cup {Me} :
                    TScoreOf(t_scores', a) = TScoreOf(t_scores, a)
                        + (IF a = Me /\ settings.bot_plays THEN 1 ELSE 0)
        \* and no score changes anywhere else
        /\ (t_pc # "waiting" \/ t_pc' \notin {"gotit", "fail"}) => UNCHANGED t_scores

\* C14: in Set, the penalties of all queued wrong calls and the finder's
\* point are applied before the next board is sent; in trivia, the point of
\* the responder or of the bot is applied before the next question is sent.
C14_ScoredBeforeNext == [][C14_SetStep /\ C14_TriviaStep]_vars

\* the second board is sent after a round with a penalty and a find
C14_Witness ==
    /\ pc = "present"
    /\ cards # << >>
    /\ \E a \in DOMAIN scores : scores[a] < 0
    /\ \E a \in DOMAIN scores : scores[a] > 0

-----------------------------------------------------------------------------
(* Properties of _is_set (SpecPure).                                       *)

Called == is_set_arg # << >>

TwiceTheSame(t) == t[1] = t[2] \/ t[1] = t[3] \/ t[2] = t[3]

\* C9: _is_set is true iff in each of the 4 attributes the three values are
\* all equal or all distinct, and a triple with the same card twice is
\* rejected.
C9_IsSetIff ==
    Called =>
        /\ is_set_ret <=> ValidTriple(is_set_arg[1], is_set_arg[2], is_set_arg[3])
        /\ TwiceTheSame(is_set_arg) => ~is_set_ret

\* C9 as amended: a triple with exactly two equal cards is rejected, three
\* times the same card is accepted.
C9_IsSetIffAmended ==
    Called =>
        /\ is_set_ret <=> ValidTriple(is_set_arg[1], is_set_arg[2], is_set_arg[3])
        /\ (TwiceTheSame(is_set_arg)
              /\ ~(is_set_arg[1] = is_set_arg[2] /\ is_set_arg[2] = is_set_arg[3]))
             => ~is_set_ret
        /\ (is_set_arg[1] = is_set_arg[2] /\ is_set_arg[2] = is_set_arg[3])
             => is_set_ret

\* three different cards that form a set
C9_Witness ==
    /\ Called
    /\ is_set_ret = TRUE
    /\ is_set_arg[1] # is_set_arg[2]

-----------------------------------------------------------------------------
(* Cards in play of a Set session.                                         *)

\* the cards of a sequence
CardsOf(seq) == {seq[i] : i \in 1..Len(seq)}

\* some three cards of the sequence are a valid triple
HoldsTriple(seq) ==
    \E i, j, k \in 1..Len(seq) :
        i < j /\ j < k /\ ValidTriple(seq[i], seq[j], seq[k])

\* the cards of the found sets taken off the board so far
RemovedCards == UNION { CardsOf(removed[k].cards) : k \in 1..Len(removed) }

\* board, deck and the removed sets hold each of the 81 cards once
Partition ==
    /\ Len(board) = Rows * boardW
    /\ Cardinality(CardsOf(board)) = Len(board)
    /\ Cardinality(CardsOf(deck)) = Len(deck)
    /\ Cardinality(RemovedCards) = 3 * Len(removed)
    /\ CardsOf(board) \cap CardsOf(deck) = {}
    /\ RemovedCards \cap (CardsOf(board) \cup CardsOf(deck)) = {}
    /\ CardsOf(board) \cup CardsOf(deck) \cup RemovedCards = Cards

\* a step in which run() calls _update_board
UpdateStep == pc = "reply" /\ pc' # "reply"

C21_Step ==
    UpdateStep =>
        /\ CardsOf(cards) \subseteq CardsOf(board)
        /\ CardsOf(board') \cap CardsOf(cards) = {}
        /\ CardsOf(board) \ CardsOf(cards) \subseteq CardsOf(board')

\* C21: cards are drawn without replacement: in every state of a Set
\* session the board holds 3 x boardW pairwise distinct cards, none of them
\* in the deck, and board, deck and the removed found sets partition the 81
\* cards; _update_board takes exactly the three found cards off the board
\* and keeps every other card of the board on it.
C21_WithoutReplacement == [](Partition) /\ [][C21_Step]_vars

\* a game played to its end: the deck has run out and the last update has
\* shrunk the board below its first width
C21_Witness ==
    /\ Len(removed) > 20
    /\ Len(deck) = 0
    /\ boardW < InitBoardW
    /\ pc = "done"

\* the cards the update leaves on the board, in the order of the board
Kept == SelectSeq(board, LAMBDA c : c \notin CardsOf(cards))

\* how many found cards lie on the board up to index i
FoundUpTo(i) == Cardinality({ k \in 1..i : board[k] \in CardsOf(cards) })

\* the deck after the step is the deck before it without its first n cards
DeckDrawn(n) == n <= Len(deck) /\ deck' = SubSeq(deck, n + 1, Len(deck))

C22_Step ==
    UpdateStep /\ deck # << >> =>
        IF boardW > 4
        THEN /\ SubSeq(board', 1, Len(Kept)) = Kept
             /\ IF HoldsTriple(Kept)
                THEN /\ board' = Kept
                     /\ boardW' = boardW - 1
                     /\ deck' = deck
                ELSE /\ boardW' >= boardW
                     /\ Len(deck') < Len(deck)
        ELSE /\ \A i \in 1..Len(board) :
                    board'[i] = IF board[i] \in CardsOf(cards)
                                THEN deck[FoundUpTo(i)]
                                ELSE board[i]
             /\ boardW' >= boardW
             /\ DeckDrawn(3 + Rows * (boardW' - boardW))

\* C22: on remove-and-refill with cards left in the deck, a board wider than
\* 4 columns first shrinks by one column without a card drawn, and grows
\* again only if the shrunk board holds no valid triple; a board of at most
\* 4 columns has its three found cards replaced in place by the next three
\* cards of the deck.
C22_ShrinkOrReplace == [][C22_Step]_vars

\* the last update found a board of 6 columns with cards left in the deck and
\* left it one column narrower, with a valid triple and no card drawn
C22_Witness ==
    /\ pc = "sleep"
    /\ removed # << >>
    /\ deck # << >>
    /\ removed[Len(removed)].boardW = 6
    /\ boardW = 5
    /\ HoldsTriple(board)

\* the cards in play
InPlay == Len(board) + Len(deck)

\* the calls check_set has accepted
AcceptedCalls == calls["alice"].right + calls["bob"].right

C30_Step ==
    /\ UpdateStep => InPlay' = InPlay - 3
    /\ ~UpdateStep => InPlay' = InPlay

C30_Bounded ==
    /\ InPlay = NumCards - 3 * Len(removed)
    /\ Len(removed) <= AcceptedCalls
    /\ AcceptedCalls <= 27
    /\ boardW <= 7
    /\ \A i \in 1..Len(board) :
          \E l \in DOMAIN _LETTER_MAP :
             _LETTER_MAP[l] = <<(i - 1) % Rows, (i - 1) \div Rows>>

\* C30: every accepted set takes exactly 3 cards out of play (board plus
\* deck), so that no session accepts more than 27 sets; and the board is
\* never wider than 7 columns, so that every card on it has a position
\* letter in _LETTER_MAP.
C30_ProgressAndWidth == [](C30_Bounded) /\ [][C30_Step]_vars

\* an update has left a board of 7 columns, every letter of the map in use
C30_Witness ==
    /\ pc = "waiting"
    /\ removed # << >>
    /\ boardW = 7
    /\ Len(board) = Cardinality(DOMAIN _LETTER_MAP)
    /\ InPlay = NumCards - 3

-----------------------------------------------------------------------------
(* Properties of the functions called by themselves (SpecCalls).           *)

\* the keys of a score mapping that are not the bot
Humans(sc) == {sc[i].who : i \in 1..Len(sc)} \ {Me}

\* the top scorer: the highest score, the earliest key among equals
Leader(sc) ==
    sc[CHOOSE i \in 1..Len(sc) :
          \A j \in 1..Len(sc) : sc[j].n < sc[i].n \/ (sc[j].n = sc[i].n /\ j >= i)]

\* multiplier x score truncated, the multiplier in units of 1/PayDen
Truncated(multiplier, score) ==
    CHOOSE k \in 0..(multiplier * score) :
        k * PayDen <= multiplier * score /\ multiplier * score < (k + 1) * PayDen

PayCalled == fn = "pay_winner" /\ fn_args[2] > 0

\* C13: end_game with a positive multiplier deposits int(multiplier x score)
\* for the top scorer iff the score mapping holds at least three keys that
\* are not the bot, and deposits nothing with fewer.
C13_PaidIffThree ==
    PayCalled =>
        LET sc == fn_args[1]
        IN  /\ fn_ret # << >> <=> Cardinality(Humans(sc)) >= 3
            /\ fn_ret # << >> =>
                  fn_ret = <<Leader(sc).who, Truncated(fn_args[2], Leader(sc).n)>>

\* C13 as amended: the deposit is made iff, besides the three keys, the top
\* scorer is not the bot and the truncated amount is positive.
C13_PaidIffThreeAmended ==
    PayCalled =>
        LET sc == fn_args[1]
        IN  /\ fn_ret # << >> <=>
                  /\ Cardinality(Humans(sc)) >= 3
                  /\ Leader(sc).who # Me
                  /\ Truncated(fn_args[2], Leader(sc).n) > 0
            /\ fn_ret # << >> =>
                  fn_ret = <<Leader(sc).who, Truncated(fn_args[2], Leader(sc).n)>>
            /\ Cardinality(Humans(sc)) < 3 => fn_ret = << >>

\* multiplier 2.0, winning score 3, four participants: 6 is paid
C13_Witness ==
    /\ PayCalled
    /\ fn_args[2] = 2 * PayDen
    /\ Cardinality(Humans(fn_args[1])) = 4
    /\ Leader(fn_args[1]).n = 3
    /\ fn_ret = <<Leader(fn_args[1]).who, 6>>

\* the strings an entry of the raw answers stands for
Expansion(e) ==
    CASE e.t = "bool" ->
            IF e.v THEN << <<"T","r","u","e">>, <<"Y","e","s">>, <<"O","n">> >>
            ELSE << <<"F","a","l","s","e">>, <<"N","o">>, <<"O","f","f">> >>
      [] e.t = "dict" -> << >>
      [] e.t = "int" ->
            << CHOOSE d \in {<<"1">>, <<"1","0">>} :
                   (Len(d) = 1) <=> (e.v < 10) >>
      [] OTHER -> <<e.v>>

\* where a string first occurs in the raw answers: entry and place in it
FirstAt(raw, x) ==
    LET at == {k * 10 + q : k \in 1..Len(raw), q \in 1..3}
        hit == {n \in at :
                  LET e == Expansion(raw[n \div 10])
                  IN  n % 10 <= Len(e) /\ e[n % 10] = x}
    IN  CHOOSE n \in hit : \A o \in hit : n <= o

ParseCalled == fn = "_parse_answers"

\* C17: the result of _parse_answers is the dict entries of the raw answers
\* as they are, followed by the strings the other entries stand for (True as
\* "True","Yes","On", False as "False","No","Off", anything else as its
\* str()), each string once, in the order of first occurrence.
C17_ParseAnswers ==
    ParseCalled =>
        LET raw == fn_args[1]
            dicts == SelectSeq(raw, LAMBDA e : e.t = "dict")
            nd == Len(dicts)
            strs == [i \in 1..(Len(fn_ret) - nd) |-> fn_ret[nd + i]]
            wanted == UNION { {Expansion(raw[k])[q] : q \in 1..Len(Expansion(raw[k]))} :
                              k \in 1..Len(raw) }
        IN  /\ Len(fn_ret) >= nd
            /\ \A i \in 1..nd : fn_ret[i] = dicts[i]
            /\ \A i \in 1..Len(strs) : strs[i].t = "str"
            /\ {strs[i].v : i \in 1..Len(strs)} = wanted
            /\ \A i, j \in 1..Len(strs) :
                  i < j => FirstAt(raw, strs[i].v) < FirstAt(raw, strs[j].v)

\* "Yes" before True, with a dict between: one "Yes", the dict in front
C17_Witness ==
    /\ ParseCalled
    /\ fn_args[1] = <<Str(TextYes), Dict([delay_factor |-> 2]), Bool(TRUE)>>
    /\ fn_ret = <<Dict([delay_factor |-> 2]), Str(TextYes), Str(TextTrue),
                  Str(TextOn)>>

\* C18: the predicate of check_answer accepts a message of a participant in
\* the session's channel whose text is one of the answers, in any letter
\* case.
C18_Reflexive ==
    fn = "check_answer" => fn_ret = TRUE

\* C19: __init__ ends its loop without reading an empty deck: it returns a
\* board of whole columns, the first cards of the shuffle in their order,
\* at least 4 columns, with a valid triple, and no shorter such board of
\* at least 4 columns holds one.
C19_ConstructionEnds ==
    fn = "__init__" =>
        LET d0 == fn_args[1]
            r == fn_ret
        IN  /\ ~r.err
            /\ r.boardW >= 4
            /\ Len(r.board) = 3 * r.boardW
            /\ r.board \o r.deck = d0
            /\ HoldsTriple(r.board)
            /\ \A w \in 4..(r.boardW - 1) : ~HoldsTriple(SubSeq(d0, 1, 3 * w))

\* a shuffle that deals 20 cards without a triple first: three columns are
\* added
C19_Witness ==
    /\ fn = "__init__"
    /\ fn_ret.boardW = 7
    /\ ~fn_ret.err
    /\ Len(fn_ret.deck) = 60

\* the 81 attribute vectors
Vectors == [1..4 -> 0..2]

\* v is the radix-3 writing of c, most significant digit first
Radix3(c, v) ==
    /\ v \in Vectors
    /\ 27 * v[1] + 9 * v[2] + 3 * v[3] + v[4] = c

\* C20: _card_num_to_vec(c) is (c // 27, (c // 9) % 3, (c // 3) % 3, c % 3),
\* the four radix-3 digits of c, each in {0,1,2}; different cards have
\* different vectors and every vector is the vector of a card.
C20_CardVecBijection ==
    fn = "_card_num_to_vec" =>
        /\ \A i \in 1..2 : Radix3(fn_args[i], fn_ret[i])
        /\ fn_args[1] # fn_args[2] => fn_ret[1] # fn_ret[2]
        /\ fn_args[1] = fn_args[2] =>
              \A v \in Vectors : \E c \in Cards : CardVec[c] = v

\* two cards that differ in the last attribute alone
C20_Witness ==
    /\ fn = "_card_num_to_vec"
    /\ fn_args = <<79, 80>>
    /\ fn_ret = << <<2, 2, 2, 1>>, <<2, 2, 2, 2>> >>

\* the letters of the first argument of the call, as wait_for_answer counts
\* them, and the positions reveal_answer hides
CallLetters == LetterCount(<<fn_args[1]>>)
CallHidden == HiddenCount(<<Upper(fn_args[1])>>)

\* the text before the k-th message of the reveal task
Before(k) ==
    IF k = 1 THEN Masked(Upper(fn_args[1])) ELSE fn_ret.task.sent[k - 1]

\* C24: the interval of the reveal task is at least slow_reveal and, with a
\* half_reveal, at least 2 x half_reveal / letter_count, so that the
\* intervals that fit into half_reveal seconds show at most half of the
\* letters; the task shows one hidden position per interval, each once, and
\* ends with the whole answer shown.
C24_RevealPacing ==
    (fn = "reveal_answer" /\ fn_ret.reveal) =>
        LET slow == fn_args[2]
            half == fn_args[3]
            num == fn_ret.num
            den == fn_ret.den
            texts == fn_ret.task.sent
        IN  /\ num > 0 /\ den > 0
            /\ num >= slow * den
            /\ half # 0 =>
                  /\ num * CallLetters >= 2 * half * den
                  /\ 2 * ((half * den) \div num) <= CallLetters
            /\ ~fn_ret.task.err
            /\ Len(texts) = CallHidden
            /\ \A k \in 1..Len(texts) :
                  \E p \in 1..Len(fn_args[1]) :
                     /\ Before(k)[p] = Hidden
                     /\ texts[k][p] = Upper(fn_args[1])[p]
                     /\ \A q \in 1..Len(fn_args[1]) :
                           q # p => texts[k][q] = Before(k)[q]
            /\ Len(texts) > 0 => texts[Len(texts)] = Upper(fn_args[1])
            /\ \A k \in 1..(Len(texts) - 1) : texts[k] # Upper(fn_args[1])

\* four letters and a half_reveal that stretches a shorter slow_reveal: the
\* task has shown all four letters
C24_Witness ==
    /\ fn = "reveal_answer"
    /\ fn_ret.reveal
    /\ fn_args[2] = 1 /\ fn_args[3] = 3
    /\ fn_ret.num = 6 /\ fn_ret.den = 4
    /\ Len(fn_ret.task.sent) = 4

=============================================================================
